---- MODULE Spec2Model ----
(***************************************************************************)
(* A model of OmniMap (src/src/lib.rs): an insertion-ordered map made of a *)
(* dense entry buffer (BufferPointer<Entry>, src/src/alloc.rs) and an      *)
(* open-addressed index of slots (BufferPointer<Slot>) probed linearly.    *)
(*                                                                         *)
(* Ordinals and slot offsets are 0-based as in the code; the TLA+          *)
(* sequences that hold them are 1-based, so position i lives at [i + 1].   *)
(***************************************************************************)
EXTENDS Naturals, Sequences, FiniteSets

(***************************************************************************)
(* Bounds of the model.                                                    *)
(***************************************************************************)
MaxKey == 3
MaxVal == 2
MaxHash == 1
MaxCap == 4
MaxInitCap == 3
MaxReserve == 2
GrowthLen == 5
MaxGrowCap == 16
MaxCloneKey == 2
MaxAfterClone == 2

ScenarioCap == 100
ScenarioKept == 75
MaxStride == 3
UsizeBits == 16
MaxIndexCap == 2
MaxAllocs == 2
MaxVecCap == 3

Keys == 1..MaxKey
Values == 1..MaxVal
Hashes == 0..MaxHash
GrowthKeys == 1..GrowthLen
CloneKeys == 1..MaxCloneKey

(***************************************************************************)
(* LOAD_FACTOR = 0.75 as the fraction LOAD_NUM / LOAD_DEN.  The f64        *)
(* comparisons and the division of maybe_grow are exact for the sizes of   *)
(* this model, so they are computed on integers.                           *)
(***************************************************************************)
LOAD_NUM == 3
LOAD_DEN == 4

VARIABLES
    entries,    \* initialized elements [0, len) of OmniMap.entries
    count,      \* OmniMap.entries.count: allocated count of the entry buffer
    index,      \* OmniMap.index: the slots [0, index.count)
    deleted,    \* OmniMap.deleted
    panicked,   \* TRUE once an operation has panicked
    hashOf,     \* the hasher: the hash of every key, fixed for a run
    ref,        \* reference ordered list of (key, value) pairs
    last,       \* the last operation: its name, arguments and result
    other,      \* a second map made by clone or clone_compact, or NoMap
    heap,       \* ownership of the entries and their destructor runs, or NoHeap
    mapIndex    \* a MapIndex (src/src/index.rs) with its memory, or NoIndex

vars == <<entries, count, index, deleted, panicked, hashOf, ref, last, other,
          heap, mapIndex>>

(***************************************************************************)
(* Values.                                                                 *)
(***************************************************************************)
None == <<"None">>
Some(x) == <<"Some", x>>

Empty == <<"Empty">>
Deleted == <<"Deleted">>
Occupied(i) == <<"Occupied", i>>
IsOccupied(slot) == slot[1] = "Occupied"

Entry(key, value, hash) == [key |-> key, value |-> value, hash |-> hash]

\* The result of a computation that panics or never returns.
Fault == <<"Fault">>

Map == [entries |-> entries, count |-> count, index |-> index,
        deleted |-> deleted, fault |-> FALSE]

Faulted(m) == [m EXCEPT !.fault = TRUE]

(***************************************************************************)
(* BufferPointer                                                           *)
(***************************************************************************)
new_allocate_default(n) == [i \in 1..n |-> Empty]

store_next(ents, e) == Append(ents, e)

take_last(ents) == SubSeq(ents, 1, Len(ents) - 1)

\* Mutant: the last element is moved into the hole instead of shifting.
take_swap_remove(ents, at) ==
    [i \in 1..(Len(ents) - 1) |-> IF i = at + 1 THEN ents[Len(ents)] ELSE ents[i]]

take_shift_left(ents, at) ==
    [i \in 1..(Len(ents) - 1) |-> IF i <= at THEN ents[i] ELSE ents[i + 1]]

take_first(ents) == take_shift_left(ents, 0)

\* Mutant: the elements are dropped before the length is reset.
drop_init_then_reset(ents) ==
    LET dropped == SubSeq(ents, 1, Len(ents))
        len_after == 0
    IN [len |-> len_after, dropped |-> dropped]

\* BufferPointer::drop_init: self.len = 0 comes first, then drop_in_place
\* runs over the slice [0, self.len).  The result is the length left and the
\* elements whose destructor ran.
drop_init(ents) ==
    LET len_after == 0
        dropped == SubSeq(ents, 1, len_after)
    IN [len |-> len_after, dropped |-> dropped]

\* Mutant: the memory is released without dropping the elements.
drop_buffer_no_drop(ents, cnt) ==
    IF cnt = 0 THEN [dropped |-> <<>>, dealloc |-> 0]
    ELSE [dropped |-> <<>>, dealloc |-> 1]

\* Drop for BufferPointer, for a buffer holding ents with allocated count
\* cnt (the pointer is null exactly when cnt = 0): the elements whose
\* destructor runs and the number of dealloc calls.
drop_buffer(ents, cnt) ==
    IF cnt = 0 THEN [dropped |-> <<>>, dealloc |-> 0]
    ELSE [dropped |-> SubSeq(ents, 1, Len(ents)), dealloc |-> 1]

\* Mutant: the pointer is copied, the clone shares the allocation.
clone_in_shallow(elems, cnt, compact) ==
    IF cnt = 0 \/ (compact /\ Len(elems) = 0)
    THEN [elems |-> <<>>, count |-> 0, fresh |-> TRUE]
    ELSE [elems |-> elems,
          count |-> IF compact THEN Len(elems) ELSE cnt,
          fresh |-> FALSE]

\* clone_in(compact) of a buffer holding elems with allocated count cnt;
\* fresh: the elements were cloned into memory the clone allocated itself.
clone_in(elems, cnt, compact) ==
    IF cnt = 0 \/ (compact /\ Len(elems) = 0)
    THEN [elems |-> <<>>, count |-> 0, fresh |-> TRUE]
    ELSE [elems |-> elems,
          count |-> IF compact THEN Len(elems) ELSE cnt,
          fresh |-> TRUE]

\* A BufferPointer with allocated count cnt (the pointer is null exactly
\* when cnt = 0) and the initialized elements ents; panic is the message of
\* the assertion that failed, ub is set when the call was undefined
\* behaviour.
Buffer(cnt, ents) == [count |-> cnt, elems |-> ents, panic |-> "", ub |-> FALSE]

\* BufferPointer::new
NewBuffer == Buffer(0, <<>>)

Panicked(b, msg) == [b EXCEPT !.panic = msg]

\* Mutant: an allocated buffer is allocated again without complaint.
allocate_again(b, n, debug) ==
    IF debug /\ n = 0
    THEN Panicked(b, "Allocation count must be greater than 0")
    ELSE [b EXCEPT !.count = n, !.ub = (n = 0)]

\* BufferPointer::allocate.  The preconditions are asserted in debug builds
\* only: a release build overwrites the pointer of an allocated buffer (the
\* old allocation leaks, len is kept over memory that is not initialized)
\* and calls alloc with a layout of size 0 for n = 0.
allocate(b, n, debug) ==
    IF debug /\ b.count # 0 THEN Panicked(b, "Pointer must be null.")
    ELSE IF debug /\ n = 0
    THEN Panicked(b, "Allocation count must be greater than 0")
    ELSE [b EXCEPT !.count = n, !.ub = (n = 0 \/ Len(b.elems) > 0)]

\* BufferPointer::new_allocate and, for the allocation it makes,
\* BufferPointer::new_allocate_default.
new_allocate(n, debug) ==
    IF n = 0 THEN NewBuffer ELSE allocate(NewBuffer, n, debug)

\* Mutant: a count of 0 is accepted and frees nothing.
reallocate_to_any(b, new_count, debug) ==
    IF debug /\ b.count = 0 THEN Panicked(b, "Pointer must not be null.")
    ELSE IF debug /\ new_count < Len(b.elems)
    THEN Panicked(b, "New count must be greater than or equal to the current length.")
    ELSE [b EXCEPT !.count = new_count,
                   !.ub = (b.count = 0 \/ new_count < Len(b.elems))]

\* BufferPointer::reallocate.  A release build hands a null pointer or a
\* size of 0 to realloc and keeps len above a smaller count.
reallocate(b, new_count, debug) ==
    IF debug /\ b.count = 0 THEN Panicked(b, "Pointer must not be null.")
    ELSE IF debug /\ new_count = 0
    THEN Panicked(b, "Allocation count must be greater than 0")
    ELSE IF debug /\ new_count < Len(b.elems)
    THEN Panicked(b, "New count must be greater than or equal to the current length.")
    ELSE [b EXCEPT !.count = new_count,
                   !.ub = (b.count = 0 \/ new_count = 0
                           \/ new_count < Len(b.elems))]

\* BufferPointer::store_next on the buffer b; a release build writes past the
\* allocation when it is exhausted.
store_next_in(b, value, debug) ==
    IF debug /\ ~(Len(b.elems) < b.count)
    THEN Panicked(b, "Allocated count is exhausted.")
    ELSE [b EXCEPT !.elems = store_next(b.elems, value),
                   !.ub = ~(Len(b.elems) < b.count)]

\* BufferPointer::take_last on the buffer b; in a release build len - 1
\* wraps around on an empty buffer.
take_last_in(b, debug) ==
    IF debug /\ ~(Len(b.elems) > 0) THEN Panicked(b, "Index out of bounds")
    ELSE IF Len(b.elems) = 0 THEN [b EXCEPT !.ub = TRUE]
    ELSE [b EXCEPT !.elems = take_last(b.elems)]

\* BufferPointer::deallocate_no_drop on the buffer b.
deallocate_no_drop_in(b, debug) ==
    IF debug /\ b.count = 0 THEN Panicked(b, "Pointer must not be null.")
    ELSE [b EXCEPT !.count = 0, !.elems = <<>>, !.ub = (b.count = 0)]

(***************************************************************************)
(* OmniMap internals                                                       *)
(***************************************************************************)
RECURSIVE probe(_, _, _, _, _)
probe(idx, ents, slot_index, step, key) ==
    IF step >= Len(idx) THEN <<slot_index, None>>
    ELSE LET slot == idx[slot_index + 1] IN
         IF slot = Empty THEN <<slot_index, None>>
         ELSE IF IsOccupied(slot) /\ slot[2] >= Len(ents) THEN <<slot_index, Fault>>
         ELSE IF IsOccupied(slot) /\ ents[slot[2] + 1].key = key
              THEN <<slot_index, Some(slot[2])>>
         ELSE probe(idx, ents, (slot_index + 1) % Len(idx), step + 1, key)

\* Mutant: a Deleted slot ends the probe like an Empty one.
RECURSIVE probe_stop_at_deleted(_, _, _, _, _)
probe_stop_at_deleted(idx, ents, slot_index, step, key) ==
    IF step >= Len(idx) THEN <<slot_index, None>>
    ELSE LET slot == idx[slot_index + 1] IN
         IF slot = Empty \/ slot = Deleted THEN <<slot_index, None>>
         ELSE IF slot[2] >= Len(ents) THEN <<slot_index, Fault>>
         ELSE IF ents[slot[2] + 1].key = key THEN <<slot_index, Some(slot[2])>>
         ELSE probe_stop_at_deleted(idx, ents, (slot_index + 1) % Len(idx),
                                    step + 1, key)

find_slot_stop_at_deleted(idx, ents, hash, key) ==
    IF Len(idx) = 0 THEN <<0, Fault>>
    ELSE probe_stop_at_deleted(idx, ents, hash % Len(idx), 0, key)

\* Mutant: when the key is absent the first tombstone of the probe is
\* returned for reuse.
find_slot_reuse_deleted(idx, ents, hash, key) ==
    IF Len(idx) = 0 THEN <<0, Fault>>
    ELSE LET r == probe(idx, ents, hash % Len(idx), 0, key)
             home == hash % Len(idx)
             dist == (r[1] + Len(idx) - home) % Len(idx)
             ds == {d \in 0..(dist - 1) :
                       idx[((home + d) % Len(idx)) + 1] = Deleted}
         IN IF r[2] = None /\ ds # {}
            THEN <<(home + (CHOOSE d \in ds : \A e \in ds : d <= e))
                     % Len(idx), None>>
            ELSE r

\* Mutant: the loop has no step counter; on an index without an Empty slot
\* and without the key it never ends.
RECURSIVE probe_unbounded(_, _, _, _, _)
probe_unbounded(idx, ents, slot_index, step, key) ==
    IF step >= 2 * Len(idx) THEN <<slot_index, Fault>>
    ELSE LET slot == idx[slot_index + 1] IN
         IF slot = Empty THEN <<slot_index, None>>
         ELSE IF IsOccupied(slot) /\ slot[2] >= Len(ents) THEN <<slot_index, Fault>>
         ELSE IF IsOccupied(slot) /\ ents[slot[2] + 1].key = key
              THEN <<slot_index, Some(slot[2])>>
         ELSE probe_unbounded(idx, ents, (slot_index + 1) % Len(idx),
                              step + 1, key)

find_slot_unbounded(idx, ents, hash, key) ==
    IF Len(idx) = 0 THEN <<0, Fault>>
    ELSE probe_unbounded(idx, ents, hash % Len(idx), 0, key)

\* The number of slots the loop of find_slot loads.
RECURSIVE probe_loads(_, _, _, _, _)
probe_loads(idx, ents, slot_index, step, key) ==
    IF step >= Len(idx) THEN step
    ELSE LET slot == idx[slot_index + 1] IN
         IF slot = Empty THEN step + 1
         ELSE IF IsOccupied(slot) /\ ents[slot[2] + 1].key = key THEN step + 1
         ELSE probe_loads(idx, ents, (slot_index + 1) % Len(idx), step + 1, key)

\* hash % 0 panics
find_slot(idx, ents, hash, key) ==
    IF Len(idx) = 0 THEN <<0, Fault>>
    ELSE probe(idx, ents, hash % Len(idx), 0, key)

\* The inner loop of build_index for entry i.  The loop of the code has no
\* bound: after Len(idx) steps without an Empty slot it never ends (Fault).
RECURSIVE place(_, _, _, _)
place(idx, slot_index, step, i) ==
    IF step >= Len(idx) THEN Fault
    ELSE LET slot == idx[slot_index + 1] IN
         IF slot = Empty THEN [idx EXCEPT ![slot_index + 1] = Occupied(i)]
         ELSE IF slot = Deleted THEN Fault
         ELSE place(idx, (slot_index + 1) % Len(idx), step + 1, i)

\* The outer loop of build_index over the entries lo .. hi - 1, in order:
\* the first half of the range, then the second half.
RECURSIVE build_range(_, _, _, _)
build_range(idx, ents, lo, hi) ==
    IF idx = Fault THEN Fault
    ELSE IF lo >= hi THEN idx
    ELSE IF Len(idx) = 0 THEN Fault
    ELSE IF hi - lo = 1 THEN place(idx, ents[lo + 1].hash % Len(idx), 0, lo)
    ELSE LET mid == (lo + hi) \div 2
         IN build_range(build_range(idx, ents, lo, mid), ents, mid, hi)

build_from(idx, ents, i) == build_range(idx, ents, i, Len(ents))

\* Mutant: every entry is probed from slot 0 instead of hash % capacity.
RECURSIVE build_from_zero(_, _, _)
build_from_zero(idx, ents, i) ==
    IF idx = Fault THEN Fault
    ELSE IF i >= Len(ents) THEN idx
    ELSE IF Len(idx) = 0 THEN Fault
    ELSE build_from_zero(place(idx, 0, 0, i), ents, i + 1)

build_index_from_zero(idx, ents) == build_from_zero(idx, ents, 0)

build_index(idx, ents) == build_from(idx, ents, 0)

\* Mutant: the decrement scan is left out.
decrement_index_skipped(idx, after) == idx

decrement_index(idx, after) ==
    [s \in 1..Len(idx) |->
        IF IsOccupied(idx[s]) /\ idx[s][2] > after
        THEN Occupied(idx[s][2] - 1)
        ELSE idx[s]]

\* Mutant: the old index is resized in place instead of being replaced.
reset_index_resized(m, cap) ==
    [m EXCEPT !.index = [i \in 1..cap |->
                            IF i <= Len(m.index) THEN m.index[i] ELSE Empty],
              !.deleted = 0]

\* Mutant: the deleted counter survives the reset.
reset_index_keep_deleted(m, cap) ==
    [m EXCEPT !.index = new_allocate_default(cap)]

reset_index(m, cap) ==
    [m EXCEPT !.index = new_allocate_default(cap), !.deleted = 0]

\* Mutant: the entry buffer is not reallocated.
reallocate_reindex_index_only(m, new_cap) ==
    IF new_cap = 0 \/ new_cap < Len(m.entries) THEN Faulted(m)
    ELSE LET r == reset_index(m, new_cap)
             built == build_index(r.index, r.entries)
         IN IF built = Fault THEN Faulted(m) ELSE [r EXCEPT !.index = built]

reallocate_reindex(m, new_cap) ==
    IF new_cap = 0 \/ new_cap < Len(m.entries) THEN Faulted(m)
    ELSE LET r == reset_index([m EXCEPT !.count = new_cap], new_cap)
             built == build_index(r.index, r.entries)
         IN IF built = Fault THEN Faulted(m) ELSE [r EXCEPT !.index = built]

\* Mutant: the slot of a removed entry becomes Empty.
mark_empty(idx, slot_index) == [idx EXCEPT ![slot_index + 1] = Empty]

\* *self.index.load_mut(slot) = Slot::Deleted
mark_deleted(idx, slot_index) == [idx EXCEPT ![slot_index + 1] = Deleted]

\* Mutant: the updated entry is moved to the end of the buffer.
replace_value_reinserted(ents, entry_index, value) ==
    Append(take_shift_left(ents, entry_index),
           [ents[entry_index + 1] EXCEPT !.value = value])

\* Mutant: the value is not stored.
replace_value_dropped(ents, entry_index, value) == ents

\* std::mem::replace(&mut self.entries.load_mut(entry_index).value, value)
replace_value(ents, entry_index, value) ==
    [ents EXCEPT ![entry_index + 1].value = value]

\* A panic with its message.
Panic(msg) == <<"Panic", msg>>

\* BufferPointer::load: the bound is checked by a debug_assert! only; without
\* it the read is out of the initialized elements.
load(ents, i, debug) ==
    IF i < Len(ents) THEN Some(ents[i + 1])
    ELSE IF debug THEN Panic("Index out of bounds")
    ELSE Fault

\* Mutant: only the index is deallocated.
deallocate_no_drop_index_only(m) ==
    [m EXCEPT !.entries = <<>>, !.index = <<>>, !.deleted = 0]

deallocate_no_drop(m) ==
    [m EXCEPT !.entries = <<>>, !.count = 0, !.index = <<>>, !.deleted = 0]

RECURSIVE pow2_from(_, _)
pow2_from(p, n) == IF p >= n THEN p ELSE pow2_from(2 * p, n)

next_power_of_two(n) == pow2_from(1, n)

\* (current_cap as f64 / LOAD_FACTOR).ceil()
growth_factor(current_cap) ==
    (current_cap * LOAD_DEN + LOAD_NUM - 1) \div LOAD_NUM

\* Mutant: growth only when the index has no free slot left at all.
exceeds_capacity(m) ==
    Len(m.entries) + m.deleted > Len(m.index)

\* Mutant: growth already at the threshold (>= instead of >).
reaches_load(m) ==
    (Len(m.entries) + m.deleted) * LOAD_DEN >= LOAD_NUM * Len(m.index)

\* Mutant: growth only once every slot of the index is in use.
exceeds_load_when_full(m) ==
    Len(m.entries) + m.deleted >= Len(m.index)

\* load_factor > LOAD_FACTOR
exceeds_load(m) ==
    (Len(m.entries) + m.deleted) * LOAD_DEN > LOAD_NUM * Len(m.index)

\* Mutant: below the threshold an index with tombstones is rebuilt in place.
maybe_grow_or_compact(m) ==
    IF exceeds_load(m)
    THEN reallocate_reindex(m, next_power_of_two(growth_factor(Len(m.index))))
    ELSE IF m.deleted > 0 THEN reallocate_reindex(m, Len(m.index))
    ELSE m

maybe_grow(m) ==
    IF exceeds_load(m)
    THEN reallocate_reindex(m, next_power_of_two(growth_factor(Len(m.index))))
    ELSE m

\* Mutant: the first allocation has capacity 2.
ensure_capacity_initial_two(m) ==
    IF Len(m.index) = 0
    THEN [m EXCEPT !.index = new_allocate_default(2), !.count = 2]
    ELSE maybe_grow(m)

ensure_capacity(m) ==
    IF Len(m.index) = 0
    THEN [m EXCEPT !.index = new_allocate_default(1), !.count = 1]
    ELSE maybe_grow(m)

(***************************************************************************)
(* Observers                                                               *)
(***************************************************************************)
\* OmniMap::with_capacity
with_capacity(cap) ==
    [entries |-> <<>>, count |-> cap, index |-> new_allocate_default(cap),
     deleted |-> 0, fault |-> FALSE]

capacity == Len(index)
len == Len(entries)

\* Mutant: the early return on an empty map is left out.
get_in_unguarded(m, hash, key) ==
    LET r == find_slot(m.index, m.entries, hash, key) IN
    IF r[2] = None \/ r[2] = Fault THEN r[2]
    ELSE Some(m.entries[r[2][2] + 1].value)

get_in(m, hash, key) ==
    IF Len(m.entries) = 0 THEN None
    ELSE LET r == find_slot(m.index, m.entries, hash, key) IN
         IF r[2] = None \/ r[2] = Fault THEN r[2]
         ELSE Some(m.entries[r[2][2] + 1].value)

get(key) == get_in(Map, hashOf[key], key)

get_mut_in(m, hash, key) ==
    IF Len(m.entries) = 0 THEN None
    ELSE LET r == find_slot(m.index, m.entries, hash, key) IN
         IF r[2] = None \/ r[2] = Fault THEN r[2]
         ELSE Some(m.entries[r[2][2] + 1].value)

\* Mutant: the entry is loaded without the bounds assertion.
index_at_unchecked(m, i, debug) ==
    LET e == load(m.entries, i, debug) IN
    IF e[1] = "Some" THEN Some(e[2].value) ELSE e

\* Index<usize>::index
index_at(m, i, debug) ==
    IF ~(i < Len(m.entries)) THEN Panic("Index out of bounds.")
    ELSE LET e == load(m.entries, i, debug) IN
         IF e[1] = "Some" THEN Some(e[2].value) ELSE e

iter == [i \in 1..Len(entries) |-> <<entries[i].key, entries[i].value>>]

iter_keys == [i \in 1..Len(entries) |-> entries[i].key]

iter_values == [i \in 1..Len(entries) |-> entries[i].value]

\* Mutant: the last initialized element is never yielded.
into_iter_next_short(ents, at) ==
    IF at + 1 < Len(ents) THEN <<Some(ents[at + 1]), at + 1>> ELSE <<None, at>>

\* BufferPointerIntoIter::next on the buffer ents with the iterator's index
\* at `at`: the item and the index afterwards.
into_iter_next(ents, at) ==
    IF at < Len(ents) THEN <<Some(ents[at + 1]), at + 1>> ELSE <<None, at>>

\* OmniMapIntoIter::next
into_iter_pair(ents, at) ==
    LET r == into_iter_next(ents, at) IN
    IF r[1] = None THEN r
    ELSE <<Some(<<r[1][2].key, r[1][2].value>>), r[2]>>

\* The items next() yields from index `at` up to its first None, and the
\* index the iterator is left with.
RECURSIVE into_iter_collect(_, _, _)
into_iter_collect(ents, at, acc) ==
    LET r == into_iter_pair(ents, at) IN
    IF r[1] = None THEN <<acc, r[2]>>
    ELSE into_iter_collect(ents, r[2], Append(acc, r[1][2]))

first ==
    IF Len(entries) = 0 THEN None
    ELSE Some(<<entries[1].key, entries[1].value>>)

\* last(); the name last is the variable that records the last operation
last_entry ==
    IF Len(entries) = 0 THEN None
    ELSE Some(<<entries[Len(entries)].key, entries[Len(entries)].value>>)

\* current_load() as the fraction <<numerator, denominator>>
current_load ==
    IF Len(index) = 0 THEN <<0, 1>> ELSE <<len + deleted, Len(index)>>

(***************************************************************************)
(* The reference list                                                      *)
(***************************************************************************)
RefHas(r, k) == \E i \in 1..Len(r) : r[i][1] = k

RefInsert(r, k, v) ==
    IF RefHas(r, k)
    THEN [i \in 1..Len(r) |-> IF r[i][1] = k THEN <<k, v>> ELSE r[i]]
    ELSE Append(r, <<k, v>>)

RefRemove(r, k) == LET Keep(p) == p[1] # k IN SelectSeq(r, Keep)

(***************************************************************************)
(* Operations                                                              *)
(***************************************************************************)
Op(name, key, val, ret) == [op |-> name, key |-> key, val |-> val, ret |-> ret]

\* No second map.
NoMap == [none |-> TRUE]

\* The second map as the operation on this map leaves it: a map that owns
\* its buffers is out of reach; one whose pointers alias the buffers of this
\* map sees what the operation wrote.  age counts the operations since the
\* clone was made.
Aliased(o, m) ==
    IF o = NoMap THEN o
    ELSE IF o.fresh THEN [o EXCEPT !.age = @ + 1]
    ELSE [o EXCEPT !.entries = m.entries, !.index = m.index, !.age = @ + 1]

\* No ownership tracking.
NoHeap == [none |-> TRUE]

\* No MapIndex.
NoIndex == [none |-> TRUE]

KeysOf(ents) == {ents[i].key : i \in 1..Len(ents)}

\* The destructor counts d after one more run for every element of ents.
Bump(d, ents) == [k \in DOMAIN d |-> IF k \in KeysOf(ents) THEN d[k] + 1 ELSE d[k]]

\* The elements whose destructor clear() runs.
dropped_by_clear(m) ==
    IF Len(m.entries) = 0 THEN <<>> ELSE drop_init(m.entries).dropped

\* Ownership after the operation o has turned this map into m: a key stored
\* by insert is seen; clear runs the destructors drop_init runs; an entry
\* that any other operation takes out of the buffer is moved to the caller.
Tracked(h, m, o) ==
    IF h = NoHeap THEN h
    ELSE IF o.op = "clear"
    THEN [h EXCEPT !.drops = Bump(@, dropped_by_clear(Map))]
    ELSE [h EXCEPT !.seen = @ \cup KeysOf(m.entries),
                   !.taken = @ \cup (KeysOf(entries) \ KeysOf(m.entries))]

\* The operation returns normally and leaves the map m.
Returns(m, r, o) ==
    /\ entries' = m.entries
    /\ count' = m.count
    /\ index' = m.index
    /\ deleted' = m.deleted
    /\ ref' = r
    /\ last' = o
    /\ other' = Aliased(other, m)
    /\ heap' = Tracked(heap, m, o)
    /\ UNCHANGED <<panicked, hashOf, mapIndex>>

\* The operation panics.
Panics(o) ==
    /\ panicked' = TRUE
    /\ last' = o
    /\ UNCHANGED <<entries, count, index, deleted, hashOf, ref, other, heap, mapIndex>>

\* Mutant: the entry stores the slot it was placed in instead of the hash.
insert_storing_slot(m, hash, key, value, debug) ==
    LET g == ensure_capacity(m)
        r == find_slot(g.index, g.entries, hash, key)
    IN IF g.fault \/ r[2] = Fault THEN <<Faulted(m), None>>
       ELSE IF r[2] # None
       THEN <<[g EXCEPT !.entries = replace_value(g.entries, r[2][2], value)],
              Some(g.entries[r[2][2] + 1].value)>>
       ELSE IF debug /\ g.index[r[1] + 1] # Empty THEN <<Faulted(m), None>>
       ELSE IF Len(g.entries) >= g.count THEN <<Faulted(m), None>>
       ELSE <<[g EXCEPT !.index[r[1] + 1] = Occupied(Len(g.entries)),
                        !.entries = store_next(g.entries, Entry(key, value, r[1]))],
              None>>

\* debug is TRUE in a build with debug assertions.  When the slot found for a
\* fresh key is not Empty the debug build panics on the debug_assert!, the
\* release build overwrites the slot.
insert(m, hash, key, value, debug) ==
    LET g == ensure_capacity(m)
        r == find_slot(g.index, g.entries, hash, key)
    IN IF g.fault \/ r[2] = Fault THEN <<Faulted(m), None>>
       ELSE IF r[2] # None
       THEN <<[g EXCEPT !.entries = replace_value(g.entries, r[2][2], value)],
              Some(g.entries[r[2][2] + 1].value)>>
       ELSE IF debug /\ g.index[r[1] + 1] # Empty THEN <<Faulted(m), None>>
       ELSE IF Len(g.entries) >= g.count THEN <<Faulted(m), None>>
       ELSE <<[g EXCEPT !.index[r[1] + 1] = Occupied(Len(g.entries)),
                        !.entries = store_next(g.entries, Entry(key, value, hash))],
              None>>

\* Mutant: the early return on an empty map is left out.
remove_unguarded(m, hash, key) ==
    LET r == find_slot(m.index, m.entries, hash, key) IN
    IF r[2] = Fault THEN <<Faulted(m), None>>
    ELSE IF r[2] = None THEN <<m, None>>
    ELSE LET slot_index == r[1]
             entry_index == r[2][2]
             marked == mark_deleted(m.index, slot_index)
         IN IF entry_index = Len(m.entries) - 1
            THEN <<[m EXCEPT !.index = marked,
                             !.entries = take_last(m.entries),
                             !.deleted = m.deleted + 1],
                   Some(m.entries[entry_index + 1].value)>>
            ELSE <<[m EXCEPT !.index = decrement_index(marked, entry_index),
                             !.entries = take_shift_left(m.entries, entry_index),
                             !.deleted = m.deleted + 1],
                   Some(m.entries[entry_index + 1].value)>>

remove(m, hash, key) ==
    IF Len(m.entries) = 0 THEN <<m, None>>
    ELSE LET r == find_slot(m.index, m.entries, hash, key) IN
         IF r[2] = Fault THEN <<Faulted(m), None>>
         ELSE IF r[2] = None THEN <<m, None>>
         ELSE LET slot_index == r[1]
                  entry_index == r[2][2]
                  marked == mark_deleted(m.index, slot_index)
              IN IF entry_index = Len(m.entries) - 1
                 THEN <<[m EXCEPT !.index = marked,
                                  !.entries = take_last(m.entries),
                                  !.deleted = m.deleted + 1],
                        Some(m.entries[entry_index + 1].value)>>
                 ELSE <<[m EXCEPT !.index = decrement_index(marked, entry_index),
                                  !.entries = take_shift_left(m.entries, entry_index),
                                  !.deleted = m.deleted + 1],
                        Some(m.entries[entry_index + 1].value)>>

\* Mutant: the ordinals are decremented from the second entry on only.
pop_front_decrement_after_one(m) ==
    IF Len(m.entries) = 0 THEN <<m, None>>
    ELSE LET entry_ref == m.entries[1]
             r == find_slot(m.index, m.entries, entry_ref.hash, entry_ref.key)
         IN IF r[2] = Fault \/ r[2] = None THEN <<Faulted(m), None>>
            ELSE <<[m EXCEPT !.entries = take_first(m.entries),
                             !.index = decrement_index(
                                 mark_deleted(m.index, r[1]), 1),
                             !.deleted = m.deleted + 1],
                   Some(<<entry_ref.key, entry_ref.value>>)>>

pop_front(m) ==
    IF Len(m.entries) = 0 THEN <<m, None>>
    ELSE LET entry_ref == m.entries[1]
             r == find_slot(m.index, m.entries, entry_ref.hash, entry_ref.key)
         IN IF r[2] = Fault \/ r[2] = None THEN <<Faulted(m), None>>
            ELSE <<[m EXCEPT !.entries = take_first(m.entries),
                             !.index = decrement_index(
                                 mark_deleted(m.index, r[1]), 0),
                             !.deleted = m.deleted + 1],
                   Some(<<entry_ref.key, entry_ref.value>>)>>

\* Mutant: the buffers are shrunk to the length after the entry is taken.
pop_then_shrink(m) ==
    IF Len(m.entries) = 0 THEN <<m, None>>
    ELSE LET entry_ref == m.entries[Len(m.entries)]
             r == find_slot(m.index, m.entries, entry_ref.hash, entry_ref.key)
         IN IF r[2] = Fault \/ r[2] = None THEN <<Faulted(m), None>>
            ELSE LET t == [m EXCEPT !.entries = take_last(m.entries),
                                    !.index = mark_deleted(m.index, r[1]),
                                    !.deleted = m.deleted + 1]
                 IN <<IF Len(t.entries) > 0
                      THEN reallocate_reindex(t, Len(t.entries))
                      ELSE deallocate_no_drop(t),
                      Some(<<entry_ref.key, entry_ref.value>>)>>

pop(m) ==
    IF Len(m.entries) = 0 THEN <<m, None>>
    ELSE LET entry_ref == m.entries[Len(m.entries)]
             r == find_slot(m.index, m.entries, entry_ref.hash, entry_ref.key)
         IN IF r[2] = Fault \/ r[2] = None THEN <<Faulted(m), None>>
            ELSE <<[m EXCEPT !.entries = take_last(m.entries),
                             !.index = mark_deleted(m.index, r[1]),
                             !.deleted = m.deleted + 1],
                   Some(<<entry_ref.key, entry_ref.value>>)>>

\* Mutant: a capacity equal to the current one is accepted too.
shrink_to_at_capacity(m, cap) ==
    IF cap >= Len(m.entries) /\ cap <= Len(m.index)
    THEN IF Len(m.entries) > 0
         THEN reallocate_reindex(m, cap)
         ELSE deallocate_no_drop(m)
    ELSE m

shrink_to(m, cap) ==
    IF cap >= Len(m.entries) /\ cap < Len(m.index)
    THEN IF Len(m.entries) > 0
         THEN reallocate_reindex(m, cap)
         ELSE deallocate_no_drop(m)
    ELSE m

\* Mutant: the target capacity is the length plus the tombstones.
shrink_to_fit_keep_deleted(m) ==
    IF Len(m.index) > Len(m.entries)
    THEN IF Len(m.entries) > 0
         THEN reallocate_reindex(m, Len(m.entries) + m.deleted)
         ELSE deallocate_no_drop(m)
    ELSE m

shrink_to_fit(m) ==
    IF Len(m.index) > Len(m.entries)
    THEN IF Len(m.entries) > 0
         THEN reallocate_reindex(m, Len(m.entries))
         ELSE deallocate_no_drop(m)
    ELSE m

clear(m) ==
    IF Len(m.entries) = 0 THEN m
    ELSE [m EXCEPT !.entries = <<>>,
                   !.index = new_allocate_default(Len(m.index)),
                   !.deleted = 0]

reserve(m, additional) ==
    IF additional = 0 THEN m
    ELSE reallocate_reindex(m, Len(m.index) + additional)

\* Clone::clone
clone(m) ==
    LET e == clone_in(m.entries, m.count, FALSE)
        i == clone_in(m.index, Len(m.index), FALSE)
    IN [entries |-> e.elems, count |-> e.count, index |-> i.elems,
        deleted |-> m.deleted, fault |-> FALSE, fresh |-> e.fresh /\ i.fresh]

\* Mutant: the index of the compact clone is copied from the source.
clone_compact_copy_index(m) ==
    LET e == clone_in(m.entries, m.count, TRUE)
    IN [entries |-> e.elems, count |-> e.count, index |-> m.index,
        deleted |-> 0, fault |-> FALSE, fresh |-> e.fresh]

clone_compact(m) ==
    LET e == clone_in(m.entries, m.count, TRUE)
        built == build_index(new_allocate_default(Len(m.entries)), e.elems)
    IN [entries |-> e.elems, count |-> e.count,
        index |-> IF built = Fault THEN <<>> ELSE built,
        deleted |-> 0, fault |-> built = Fault, fresh |-> e.fresh]

(***************************************************************************)
(* Actions: one per public operation                                       *)
(***************************************************************************)
Finish(m, r, o) == IF m.fault THEN Panics(o) ELSE Returns(m, r, o)

\* insert(k, v), enabled while the capacity it leaves is within limit.
InsertWithin(k, v, limit) ==
    /\ ~panicked
    /\ \E debug \in BOOLEAN :
          LET res == insert(Map, hashOf[k], k, v, debug) IN
          /\ Len(res[1].index) <= limit
          /\ Finish(res[1], RefInsert(ref, k, v), Op("insert", k, v, res[2]))

Insert(k, v) == InsertWithin(k, v, MaxCap)

Remove(k) ==
    /\ ~panicked
    /\ LET res == remove(Map, hashOf[k], k) IN
       Finish(res[1], RefRemove(ref, k), Op("remove", k, 0, res[2]))

PopFront ==
    /\ ~panicked
    /\ LET res == pop_front(Map) IN
       Finish(res[1], IF ref = <<>> THEN ref ELSE Tail(ref),
              Op("pop_front", 0, 0, res[2]))

Pop ==
    /\ ~panicked
    /\ LET res == pop(Map) IN
       Finish(res[1], IF ref = <<>> THEN ref ELSE SubSeq(ref, 1, Len(ref) - 1),
              Op("pop", 0, 0, res[2]))

Clear ==
    /\ ~panicked
    /\ Finish(clear(Map), <<>>, Op("clear", 0, 0, None))

\* reserve on an unallocated map reallocates a null pointer: the debug build
\* panics ('Pointer must not be null.'), the release build hands the null
\* pointer to realloc, which either allocates or aborts.
Reserve(additional) ==
    /\ ~panicked
    /\ capacity + additional <= MaxCap
    /\ \/ /\ additional > 0 /\ count = 0
          /\ Panics(Op("reserve", 0, additional, None))
       \/ Finish(reserve(Map, additional), ref, Op("reserve", 0, additional, None))

ShrinkTo(cap) ==
    /\ ~panicked
    /\ Finish(shrink_to(Map, cap), ref, Op("shrink_to", 0, cap, None))

ShrinkToFit ==
    /\ ~panicked
    /\ Finish(shrink_to_fit(Map), ref, Op("shrink_to_fit", 0, 0, None))

Init ==
    /\ entries = <<>>
    /\ \E n \in 0..MaxInitCap :
          /\ count = n
          /\ index = new_allocate_default(n)
    /\ deleted = 0
    /\ panicked = FALSE
    /\ hashOf \in [Keys -> Hashes]
    /\ ref = <<>>
    /\ last = Op("new", 0, 0, None)
    /\ other = NoMap
    /\ heap = NoHeap
    /\ mapIndex = NoIndex

Next ==
    \/ \E k \in Keys, v \in Values : Insert(k, v)
    \/ \E k \in Keys : Remove(k)
    \/ PopFront
    \/ Pop
    \/ Clear
    \/ \E n \in 0..MaxReserve : Reserve(n)
    \/ \E n \in 0..MaxCap : ShrinkTo(n)
    \/ ShrinkToFit

Spec == Init /\ [][Next]_vars

(***************************************************************************)
(* The operations that read the map, next to the ones that change it.      *)
(***************************************************************************)
\* A reading operation returns r (a panic or a faulting read ends the run).
Observes(name, key, val, r) ==
    IF r = Fault \/ r[1] = "Panic"
    THEN Panics(Op(name, key, val, r))
    ELSE /\ last' = Op(name, key, val, r)
         /\ UNCHANGED <<entries, count, index, deleted, panicked, hashOf,
                        ref, other, heap, mapIndex>>

Get(k) == ~panicked /\ Observes("get", k, 0, get_in(Map, hashOf[k], k))

GetMut(k) ==
    ~panicked /\ Observes("get_mut", k, 0, get_mut_in(Map, hashOf[k], k))

First == ~panicked /\ Observes("first", 0, 0, first)

Last == ~panicked /\ Observes("last", 0, 0, last_entry)

IndexAt(i) ==
    /\ ~panicked
    /\ \E debug \in BOOLEAN : Observes("index", 0, i, index_at(Map, i, debug))

NextAccess ==
    \/ Next
    \/ \E k \in Keys : Get(k)
    \/ \E k \in Keys : GetMut(k)
    \/ First
    \/ Last
    \/ \E i \in 0..MaxCap : IndexAt(i)

SpecAccess == Init /\ [][NextAccess]_vars

(***************************************************************************)
(* Iterators.  into_iter consumes the map: the items it yields up to the   *)
(* first None are collected, next() is called once more, and no operation  *)
(* follows.                                                                *)
(***************************************************************************)
Yields(name, r) ==
    /\ last' = Op(name, 0, 0, Some(r))
    /\ UNCHANGED <<entries, count, index, deleted, panicked, hashOf, ref, other,
                   heap, mapIndex>>

Iter == ~panicked /\ Yields("iter", iter)

IterKeys == ~panicked /\ Yields("iter_keys", iter_keys)

IterValues == ~panicked /\ Yields("iter_values", iter_values)

IntoIter ==
    /\ ~panicked
    /\ LET c == into_iter_collect(entries, 0, <<>>) IN
       Yields("into_iter", <<c[1], into_iter_pair(entries, c[2])[1]>>)

NextIter ==
    \/ last.op # "into_iter" /\ Next
    \/ last.op # "into_iter" /\ Iter
    \/ last.op # "into_iter" /\ IterKeys
    \/ last.op # "into_iter" /\ IterValues
    \/ last.op # "into_iter" /\ IntoIter

SpecIter == Init /\ [][NextIter]_vars

(***************************************************************************)
(* Clones.  The second map is the clone; Swap exchanges the two maps, so    *)
(* that the operations that follow are applied to the other one.           *)
(***************************************************************************)
\* The clone c becomes the second map, with the reference list r.
Second(c, r) ==
    [entries |-> c.entries, count |-> c.count, index |-> c.index,
     deleted |-> c.deleted, fresh |-> c.fresh, ref |-> r, age |-> 0]

Cloned(c, name) ==
    IF c.fault THEN Panics(Op(name, 0, 0, None))
    ELSE /\ other' = Second(c, ref)
         /\ last' = Op(name, 0, 0, None)
         /\ UNCHANGED <<entries, count, index, deleted, panicked, hashOf, ref,
                        heap, mapIndex>>

Clone == ~panicked /\ other = NoMap /\ Cloned(clone(Map), "clone")

CloneCompact ==
    ~panicked /\ other = NoMap /\ Cloned(clone_compact(Map), "clone_compact")

Swap ==
    /\ ~panicked
    /\ other # NoMap
    /\ entries' = other.entries
    /\ count' = other.count
    /\ index' = other.index
    /\ deleted' = other.deleted
    /\ ref' = other.ref
    /\ other' = [entries |-> entries, count |-> count, index |-> index,
                 deleted |-> deleted, fresh |-> other.fresh, ref |-> ref,
                 age |-> other.age]
    /\ last' = Op("swap", 0, 0, None)
    /\ UNCHANGED <<panicked, hashOf, heap, mapIndex>>

\* Any sequence of operations, then one clone_compact or clone.
NextCompact ==
    \/ other = NoMap /\ Next
    \/ CloneCompact
    \/ Clone

SpecCompact == Init /\ [][NextCompact]_vars

\* Inserts and removals of the keys CloneKeys from new(), one clone or
\* compact clone, then up to MaxAfterClone inserts, removals and clears on
\* either of the two maps.
InitClone ==
    /\ entries = <<>>
    /\ count = 0
    /\ index = <<>>
    /\ deleted = 0
    /\ panicked = FALSE
    /\ hashOf \in {h \in [Keys -> Hashes] : \A k \in Keys \ CloneKeys : h[k] = 0}
    /\ ref = <<>>
    /\ last = Op("new", 0, 0, None)
    /\ other = NoMap
    /\ heap = NoHeap
    /\ mapIndex = NoIndex

WithinClone == IF other = NoMap THEN TRUE ELSE other.age < MaxAfterClone

NextClone ==
    \/ WithinClone /\ \E k \in CloneKeys, v \in Values : Insert(k, v)
    \/ WithinClone /\ \E k \in CloneKeys : Remove(k)
    \/ WithinClone /\ other # NoMap /\ Clear
    \/ Clone
    \/ CloneCompact
    \/ Swap

SpecClone == InitClone /\ [][NextClone]_vars

(***************************************************************************)
(* The growth policy on larger capacities: inserts, whose growth may reach *)
(* MaxGrowCap, and pops, which leave tombstones.                           *)
(***************************************************************************)
GrowInsert(k) == InsertWithin(k, 1, MaxGrowCap)

NextPolicy ==
    \/ \E k \in Keys : GrowInsert(k)
    \/ Pop

SpecPolicy == Init /\ [][NextPolicy]_vars

(***************************************************************************)
(* The growth trajectory: from new(), the keys 1, 2, ... are inserted one  *)
(* after another.                                                          *)
(***************************************************************************)
InitGrowth ==
    /\ entries = <<>>
    /\ count = 0
    /\ index = <<>>
    /\ deleted = 0
    /\ panicked = FALSE
    /\ hashOf \in [GrowthKeys -> Hashes]
    /\ ref = <<>>
    /\ last = Op("new", 0, 0, None)
    /\ other = NoMap
    /\ heap = NoHeap
    /\ mapIndex = NoIndex

InsertNextKey(v) ==
    /\ len < GrowthLen
    /\ InsertWithin(len + 1, v, 2 * MaxGrowCap)

NextGrowth == \E v \in Values : InsertNextKey(v)

SpecGrowth == InitGrowth /\ [][NextGrowth]_vars

(***************************************************************************)
(* The index-integrity scenario: from with_capacity(ScenarioCap) the keys  *)
(* 0 .. ScenarioCap - 1 are inserted in order, each with itself as value,  *)
(* then the keys ScenarioKept .. ScenarioCap - 1 are removed in order.     *)
(* The hasher is one of the functions k -> k * stride, stride >= 1.        *)
(***************************************************************************)
ScenarioKeys == 0..(ScenarioCap - 1)

InitScenario ==
    /\ entries = with_capacity(ScenarioCap).entries
    /\ count = with_capacity(ScenarioCap).count
    /\ index = with_capacity(ScenarioCap).index
    /\ deleted = with_capacity(ScenarioCap).deleted
    /\ panicked = FALSE
    /\ \E stride \in 1..MaxStride : hashOf = [k \in ScenarioKeys |-> k * stride]
    /\ ref = <<>>
    /\ last = Op("with_capacity", 0, ScenarioCap, None)
    /\ other = NoMap
    /\ heap = NoHeap
    /\ mapIndex = NoIndex

\* for i in 0..ScenarioCap { map.insert(i, i) }
ScenarioInsert ==
    /\ last.op \in {"with_capacity", "insert"}
    /\ len < ScenarioCap
    /\ InsertWithin(len, len, 4 * ScenarioCap)

\* for i in ScenarioKept..ScenarioCap { map.remove(&i) }
ScenarioRemove ==
    /\ \/ last.op = "insert" /\ len = ScenarioCap
       \/ last.op = "remove"
    /\ len > ScenarioKept
    /\ Remove(ScenarioCap - (len - ScenarioKept))

NextScenario ==
    \/ ScenarioInsert
    \/ ScenarioRemove

SpecScenario == InitScenario /\ [][NextScenario]_vars

(***************************************************************************)
(* Ownership.  Every key is inserted at most once, so a key names one      *)
(* entry; heap records the keys stored so far (seen), the entries moved    *)
(* out to the caller (taken), the destructor runs of each entry (drops),   *)
(* whether the map is alive, consumed by into_iter or dropped (phase), the *)
(* index of the owning iterator (at) and the dealloc calls for the entry   *)
(* buffer (deallocs).                                                      *)
(***************************************************************************)
InitDrop ==
    /\ entries = <<>>
    /\ \E n \in 0..MaxInitCap :
          /\ count = n
          /\ index = new_allocate_default(n)
    /\ deleted = 0
    /\ panicked = FALSE
    /\ hashOf \in [Keys -> Hashes]
    /\ ref = <<>>
    /\ last = Op("new", 0, 0, None)
    /\ other = NoMap
    /\ heap = [seen |-> {}, taken |-> {}, drops |-> [k \in Keys |-> 0],
               phase |-> "map", at |-> 0, deallocs |-> 0]
    /\ mapIndex = NoIndex

Alive == ~panicked /\ heap.phase = "map"

InsertFresh(k) == Alive /\ k \notin heap.seen /\ Insert(k, 1)

\* IntoIterator for OmniMap: the entry buffer moves into the iterator, the
\* index is dropped with the rest of the map.
IntoIterOwned ==
    /\ Alive
    /\ index' = <<>>
    /\ deleted' = 0
    /\ heap' = [heap EXCEPT !.phase = "iter", !.at = 0]
    /\ last' = Op("into_iter_owned", 0, 0, None)
    /\ UNCHANGED <<entries, count, panicked, hashOf, ref, other, mapIndex>>

\* OmniMapIntoIter::next
IterNext ==
    /\ ~panicked /\ heap.phase = "iter"
    /\ LET r == into_iter_pair(entries, heap.at) IN
       /\ heap' = [heap EXCEPT !.at = r[2],
                               !.taken = IF r[1] = None THEN @
                                         ELSE @ \cup {r[1][2][1]}]
       /\ last' = Op("next", 0, 0, r[1])
    /\ UNCHANGED <<entries, count, index, deleted, panicked, hashOf, ref, other,
                   mapIndex>>

\* The buffer b of the map or of its iterator is dropped.
Dropped(name) ==
    LET d == drop_buffer(entries, count) IN
    /\ heap' = [heap EXCEPT !.phase = "gone",
                            !.drops = Bump(@, d.dropped),
                            !.deallocs = @ + d.dealloc]
    /\ entries' = <<>>
    /\ count' = 0
    /\ index' = <<>>
    /\ deleted' = 0
    /\ last' = Op(name, Len(entries), count, None)
    /\ UNCHANGED <<panicked, hashOf, ref, other, mapIndex>>

\* OmniMapIntoIter goes out of scope: its BufferPointerIntoIter has no Drop
\* of its own, so the buffer it holds is dropped as it is.
DropIter == ~panicked /\ heap.phase = "iter" /\ Dropped("drop_iter")

\* The map goes out of scope: OmniMap has no Drop of its own, its two
\* buffers are dropped.
DropMap == Alive /\ Dropped("drop")

NextDrop ==
    \/ \E k \in Keys : InsertFresh(k)
    \/ Alive /\ \E k \in Keys : Remove(k)
    \/ Alive /\ PopFront
    \/ Alive /\ Pop
    \/ Alive /\ Clear
    \/ IntoIterOwned
    \/ IterNext
    \/ DropIter
    \/ DropMap

SpecDrop == InitDrop /\ [][NextDrop]_vars

(***************************************************************************)
(* One BufferPointer on its own: entries and count are its elements and    *)
(* its allocated count.  last.key is 1 for a build with debug assertions.  *)
(* A call that is undefined behaviour either ends the run or has the       *)
(* effect the code has when the allocator goes along with it.              *)
(***************************************************************************)
InitBuffer ==
    /\ entries = NewBuffer.elems
    /\ count = NewBuffer.count
    /\ index = <<>>
    /\ deleted = 0
    /\ panicked = FALSE
    /\ hashOf = <<>>
    /\ ref = <<>>
    /\ last = Op("new", 0, 0, None)
    /\ other = NoMap
    /\ heap = NoHeap
    /\ mapIndex = NoIndex

ThisBuffer == Buffer(count, entries)

BufferCall(name, debug, arg, r) ==
    LET flag == IF debug THEN 1 ELSE 0 IN
    /\ UNCHANGED <<index, deleted, hashOf, ref, other, heap, mapIndex>>
    /\ IF r.panic # ""
       THEN /\ panicked' = TRUE
            /\ last' = Op(name, flag, arg, Panic(r.panic))
            /\ UNCHANGED <<entries, count>>
       ELSE \/ /\ r.ub
               /\ panicked' = TRUE
               /\ last' = Op(name, flag, arg, Fault)
               /\ UNCHANGED <<entries, count>>
            \/ /\ Len(r.elems) <= r.count
               /\ entries' = r.elems
               /\ count' = r.count
               /\ last' = Op(name, flag, arg, None)
               /\ UNCHANGED panicked

BufAllocate(n) ==
    /\ ~panicked
    /\ \E debug \in BOOLEAN :
          BufferCall("allocate", debug, n, allocate(ThisBuffer, n, debug))

BufReallocate(n) ==
    /\ ~panicked
    /\ \E debug \in BOOLEAN :
          BufferCall("reallocate", debug, n, reallocate(ThisBuffer, n, debug))

BufStoreNext(v) ==
    /\ ~panicked
    /\ \E debug \in BOOLEAN :
          BufferCall("store_next", debug, v, store_next_in(ThisBuffer, v, debug))

BufTakeLast ==
    /\ ~panicked
    /\ \E debug \in BOOLEAN :
          BufferCall("take_last", debug, 0, take_last_in(ThisBuffer, debug))

BufDeallocate ==
    /\ ~panicked
    /\ \E debug \in BOOLEAN :
          BufferCall("deallocate_no_drop", debug, 0,
                     deallocate_no_drop_in(ThisBuffer, debug))

NextBuffer ==
    \/ \E n \in 0..MaxCap : BufAllocate(n)
    \/ \E n \in 0..MaxCap : BufReallocate(n)
    \/ \E v \in Values : BufStoreNext(v)
    \/ BufTakeLast
    \/ BufDeallocate

SpecBuffer == InitBuffer /\ [][NextBuffer]_vars

(***************************************************************************)
(* MapIndex (src/src/index.rs): one allocation that holds N entry indices  *)
(* of type usize below the pointer and N one-byte tags above it.  usize    *)
(* has UsizeBits bits here.  Memory is a sequence of bytes; a byte that    *)
(* was never written is Uninit.                                            *)
(***************************************************************************)
USIZE_MAX == 2^UsizeBits - 1
ISIZE_MAX == 2^(UsizeBits - 1) - 1

\* size_of::<usize>() and align_of::<usize>()
T_SIZE == (UsizeBits + 7) \div 8
T_ALIGN == (UsizeBits + 7) \div 8
T_MAX_ALLOC_SIZE == (ISIZE_MAX + 1) - T_ALIGN

\* What a byte never written holds: a value no u8 has.
Uninit == 2^8

\* Tag as u8
TagEmpty == 0
TagDeleted == 1
TagOccupied == 2
Tags == {TagEmpty, TagDeleted, TagOccupied}

Ok == <<"Ok">>
Err(e) == <<"Err", e>>

checked_mul(a, b) == IF b # 0 /\ a > USIZE_MAX \div b THEN None ELSE Some(a * b)

checked_add(a, b) == IF a + b > USIZE_MAX THEN None ELSE Some(a + b)

\* The little-endian bytes of a usize and the usize of its bytes.
to_bytes(v) == [j \in 1..T_SIZE |-> (v \div (256^(j - 1))) % 256]

RECURSIVE from_bytes(_)
from_bytes(b) ==
    IF b = <<>> THEN 0 ELSE b[1] + 256 * from_bytes(Tail(b))

\* UnsafeBufferPointer<u8>: null, or at byte `at` of the region it allocated.
UnsafeNew == [null |-> TRUE, at |-> 0, region |-> <<>>]

\* UnsafeBufferPointer::allocate(layout, on_err) for a layout of `size`
\* bytes: the region is not initialized; refused is TRUE when the allocator
\* fails.
UnsafeAllocate(size, refused) ==
    IF refused THEN <<Err("AllocationFailed"), UnsafeNew>>
    ELSE <<Ok, [null |-> FALSE, at |-> 0, region |-> [i \in 1..size |-> Uninit]]>>

UnsafeSetPlus(p, n) == [p EXCEPT !.at = @ + n]

UnsafeSetMinus(p, n) == [p EXCEPT !.at = @ - n]

\* UnsafeBufferPointer::deallocate(layout): releases the region and sets the
\* pointer to null.
UnsafeDeallocate(p) == UnsafeNew

\* UnsafeBufferPointer::store(offset, byte)
UnsafeStore(p, offset, byte) == [p EXCEPT !.region[p.at + offset + 1] = byte]

\* UnsafeBufferPointer::memset_zero(n)
UnsafeMemsetZero(p, n) ==
    [p EXCEPT !.region = [i \in 1..Len(p.region) |->
                             IF i > p.at /\ i <= p.at + n THEN 0
                             ELSE p.region[i]]]

\* Mutant: the size of the layout is not compared with the platform maximum.
index_layout_any_size(cap) ==
    LET slots_size == checked_mul(cap, T_SIZE)
        rounded == checked_add(cap, T_ALIGN - 1)
    IN IF slots_size = None \/ rounded = None THEN None
       ELSE LET aligned_tags == (rounded[2] \div T_ALIGN) * T_ALIGN
                total_size == checked_add(slots_size[2], aligned_tags)
            IN IF total_size = None THEN None
               ELSE Some(<<total_size[2], slots_size[2]>>)

\* MapIndex::index_layout(cap): the size of the layout and of the slots.
index_layout(cap) ==
    LET slots_size == checked_mul(cap, T_SIZE)
        rounded == checked_add(cap, T_ALIGN - 1)
    IN IF slots_size = None \/ rounded = None THEN None
       ELSE LET aligned_tags == (rounded[2] \div T_ALIGN) * T_ALIGN
                total_size == checked_add(slots_size[2], aligned_tags)
            IN IF total_size = None THEN None
               ELSE IF T_MAX_ALLOC_SIZE > total_size[2]
               THEN Some(<<total_size[2], slots_size[2]>>)
               ELSE None

\* MapIndex::new_unallocated
new_unallocated == UnsafeNew

\* MapIndex::allocate_uninit(cap, on_err) on the index pointer p: the result
\* and the pointer afterwards.  With OnError::NoReturn an error ends the
\* process instead of being returned.
allocate_uninit(p, cap, refused) ==
    LET l == index_layout(cap) IN
    IF l = None THEN <<Err("Overflow"), p>>
    ELSE LET a == UnsafeAllocate(l[2][1], refused) IN
         IF a[1] # Ok THEN <<a[1], p>>
         ELSE <<Ok, UnsafeSetPlus(a[2], l[2][2])>>

\* MapIndex::deallocate(cap): how the call ends and the pointer afterwards.
\* It is undefined behaviour on a null pointer (a debug build panics on the
\* debug_assert!) and with a capacity other than the allocated one.
deallocate(p, cap, debug) ==
    IF p.null
    THEN <<IF debug THEN Panic("assertion failed") ELSE Fault, p>>
    ELSE LET l == index_layout(cap) IN
         IF l = None \/ l[2][1] # Len(p.region) \/ l[2][2] # p.at
         THEN <<Fault, p>>
         ELSE <<Ok, UnsafeDeallocate(UnsafeSetMinus(p, l[2][2]))>>

\* MapIndex::read_tag(offset): Some of the tag read; reading a byte that is
\* not the value of a Tag is undefined.
read_tag(p, offset) ==
    LET byte == p.region[p.at + offset + 1] IN
    IF byte \in Tags THEN Some(byte) ELSE Fault

\* MapIndex::store_tag(offset, tag)
store_tag(p, offset, tag) == UnsafeStore(p, offset, tag)

\* MapIndex::read_entry_index(offset): Some of the usize read; reading bytes
\* never written is undefined.
read_entry_index(p, offset) ==
    LET first_byte == p.at - (offset + 1) * T_SIZE
        bytes == [j \in 1..T_SIZE |-> p.region[first_byte + j]]
    IN IF \E j \in 1..T_SIZE : bytes[j] = Uninit THEN Fault
       ELSE Some(from_bytes(bytes))

\* Mutant: the entry index of the offset is stored at sub(offset).
store_entry_index_at_offset(p, offset, value) ==
    LET first_byte == p.at - offset * T_SIZE
        bytes == to_bytes(value)
    IN [p EXCEPT !.region = [i \in 1..Len(p.region) |->
                                IF i > first_byte /\ i <= first_byte + T_SIZE
                                THEN bytes[i - first_byte]
                                ELSE p.region[i]]]

\* MapIndex::store_entry_index(offset, value)
store_entry_index(p, offset, value) ==
    LET first_byte == p.at - (offset + 1) * T_SIZE
        bytes == to_bytes(value)
    IN [p EXCEPT !.region = [i \in 1..Len(p.region) |->
                                IF i > first_byte /\ i <= first_byte + T_SIZE
                                THEN bytes[i - first_byte]
                                ELSE p.region[i]]]

\* MapIndex::set_tags_empty(cap)
set_tags_empty(p, cap) == UnsafeMemsetZero(p, cap)

\* No guard.
NoGuard == [state |-> "none", cap |-> 0]

\* MapIndex::guard(cap)
guard(cap) == [state |-> "active", cap |-> cap]

\* IndexGuard::deactivate: the guard is wrapped in ManuallyDrop, its drop
\* never runs.
deactivate(g) == [g EXCEPT !.state = "deactivated"]

\* Mutant: the guard deallocates without looking at the pointer.
guard_drop_unchecked(p, g, debug) == deallocate(p, g.cap, debug)

\* Drop for IndexGuard on the index pointer p: how the drop ends and the
\* pointer afterwards.
guard_drop(p, g, debug) ==
    IF ~p.null THEN deallocate(p, g.cap, debug) ELSE <<Ok, p>>

(***************************************************************************)
(* mapIndex is the index with its pointer, the capacity it was allocated   *)
(* with (kept by the caller), its guard, and the numbers of allocations    *)
(* and deallocations made so far.  allocate_uninit is called on an         *)
(* unallocated index, the other operations on an allocated one with        *)
(* offsets below the capacity, and a guard is made with the capacity of    *)
(* the index.                                                              *)
(***************************************************************************)
EntryIndexValues == {0, 256, USIZE_MAX}

\* Capacities whose layout is too large: isize::MAX and usize::MAX, the
\* first one whose slots overflow usize, the first one whose slots alone
\* exceed the largest size, and one whose slots fit but not with the tags.
LargeCaps ==
    {ISIZE_MAX, USIZE_MAX, (USIZE_MAX \div T_SIZE) + 1,
     (T_MAX_ALLOC_SIZE \div T_SIZE) + 1,
     (T_MAX_ALLOC_SIZE \div (T_SIZE + 1)) + 1}

InitIndex ==
    /\ entries = <<>>
    /\ count = 0
    /\ index = <<>>
    /\ deleted = 0
    /\ panicked = FALSE
    /\ hashOf = <<>>
    /\ ref = <<>>
    /\ last = Op("new_unallocated", 0, 0, None)
    /\ other = NoMap
    /\ heap = NoHeap
    /\ mapIndex = [pointer |-> new_unallocated, cap |-> 0, guard |-> NoGuard,
                   allocs |-> 0, frees |-> 0]

\* The call returns ret and leaves the index as next.
IndexCall(name, key, val, ret, next) ==
    /\ mapIndex' = next
    /\ last' = Op(name, key, val, ret)
    /\ UNCHANGED <<entries, count, index, deleted, panicked, hashOf, ref, other,
                   heap>>

\* The call is undefined behaviour or panics: the run ends.
IndexFault(name, key, val, ret) ==
    /\ panicked' = TRUE
    /\ last' = Op(name, key, val, ret)
    /\ UNCHANGED <<entries, count, index, deleted, hashOf, ref, other, heap,
                   mapIndex>>

\* allocate_uninit(cap, OnError::ReturnErr)
IdxAllocate(cap) ==
    /\ ~panicked
    /\ mapIndex.pointer.null
    /\ mapIndex.allocs < MaxAllocs
    /\ \E refused \in BOOLEAN :
          LET r == allocate_uninit(mapIndex.pointer, cap, refused) IN
          IndexCall("allocate_uninit", 0, cap, r[1],
                    IF r[1] = Ok
                    THEN [mapIndex EXCEPT !.pointer = r[2], !.cap = cap,
                                          !.allocs = @ + 1]
                    ELSE [mapIndex EXCEPT !.pointer = r[2]])

\* The index after a call that left the pointer p: a deallocation is counted
\* when the pointer became null.
Freed(p) ==
    [mapIndex EXCEPT !.pointer = p,
                     !.frees = IF p.null /\ ~mapIndex.pointer.null
                               THEN @ + 1 ELSE @]

IdxDeallocate ==
    /\ ~panicked
    /\ ~mapIndex.pointer.null
    /\ \E debug \in BOOLEAN :
          LET r == deallocate(mapIndex.pointer, mapIndex.cap, debug) IN
          IF r[1] # Ok THEN IndexFault("deallocate", 0, 0, r[1])
          ELSE IndexCall("deallocate", 0, 0, None, Freed(r[2]))

IdxSetTagsEmpty ==
    /\ ~panicked
    /\ ~mapIndex.pointer.null
    /\ IndexCall("set_tags_empty", 0, mapIndex.cap, None,
                 [mapIndex EXCEPT
                     !.pointer = set_tags_empty(mapIndex.pointer, mapIndex.cap)])

IdxStoreTag(i, t) ==
    /\ ~panicked
    /\ ~mapIndex.pointer.null /\ i < mapIndex.cap
    /\ IndexCall("store_tag", i, t, None,
                 [mapIndex EXCEPT !.pointer = store_tag(mapIndex.pointer, i, t)])

IdxStoreEntryIndex(i, v) ==
    /\ ~panicked
    /\ ~mapIndex.pointer.null /\ i < mapIndex.cap
    /\ IndexCall("store_entry_index", i, v, None,
                 [mapIndex EXCEPT
                     !.pointer = store_entry_index(mapIndex.pointer, i, v)])

IdxReadTag(i) ==
    /\ ~panicked
    /\ ~mapIndex.pointer.null /\ i < mapIndex.cap
    /\ LET r == read_tag(mapIndex.pointer, i) IN
       IF r = Fault THEN IndexFault("read_tag", i, 0, r)
       ELSE IndexCall("read_tag", i, 0, r, mapIndex)

IdxReadEntryIndex(i) ==
    /\ ~panicked
    /\ ~mapIndex.pointer.null /\ i < mapIndex.cap
    /\ LET r == read_entry_index(mapIndex.pointer, i) IN
       IF r = Fault THEN IndexFault("read_entry_index", i, 0, r)
       ELSE IndexCall("read_entry_index", i, 0, r, mapIndex)

IdxGuard ==
    /\ ~panicked
    /\ mapIndex.guard.state = "none"
    /\ IndexCall("guard", 0, mapIndex.cap, None,
                 [mapIndex EXCEPT !.guard = guard(mapIndex.cap)])

GuardDeactivate ==
    /\ ~panicked
    /\ mapIndex.guard.state = "active"
    /\ IndexCall("deactivate", 0, 0, None,
                 [mapIndex EXCEPT !.guard = deactivate(mapIndex.guard)])

\* The guard goes out of scope while it is active.
GuardDrop ==
    /\ ~panicked
    /\ mapIndex.guard.state = "active"
    /\ \E debug \in BOOLEAN :
          LET r == guard_drop(mapIndex.pointer, mapIndex.guard, debug) IN
          IF r[1] # Ok THEN IndexFault("guard_drop", 0, 0, r[1])
          ELSE IndexCall("guard_drop", 0, 0, None,
                   [Freed(r[2]) EXCEPT !.guard.state = "dropped"])

NextIndex ==
    \/ \E cap \in (1..MaxIndexCap) \cup LargeCaps : IdxAllocate(cap)
    \/ IdxDeallocate
    \/ IdxSetTagsEmpty
    \/ \E i \in 0..(MaxIndexCap - 1), t \in Tags : IdxStoreTag(i, t)
    \/ \E i \in 0..(MaxIndexCap - 1), v \in EntryIndexValues :
          IdxStoreEntryIndex(i, v)
    \/ \E i \in 0..(MaxIndexCap - 1) : IdxReadTag(i)
    \/ \E i \in 0..(MaxIndexCap - 1) : IdxReadEntryIndex(i)
    \/ IdxGuard
    \/ GuardDeactivate
    \/ GuardDrop

SpecIndex == InitIndex /\ [][NextIndex]_vars

(***************************************************************************)
(* AllocVec (src/src/vec.rs): a vector with its elements and its capacity. *)
(* In the vector specification entries holds the elements and count the    *)
(* capacity.                                                               *)
(***************************************************************************)
AllocVec(elems, cap) == [elems |-> elems, cap |-> cap]

\* AllocVec::with_capacity(cap)
vec_with_capacity(cap) == AllocVec(<<>>, cap)

\* AllocVec::reserve(additional): the buffer is reallocated with the larger
\* capacity and keeps its elements.
vec_reserve(v, additional) ==
    IF v.cap + additional > v.cap THEN [v EXCEPT !.cap = v.cap + additional]
    ELSE v

\* Mutant: a full vector grows by one as in push.
try_push_growing(v, value) ==
    LET w == IF Len(v.elems) = v.cap THEN vec_reserve(v, 1) ELSE v
    IN <<Ok, [w EXCEPT !.elems = Append(@, value)]>>

\* AllocVec::try_push(value): the result and the vector afterwards.
try_push(v, value) ==
    IF Len(v.elems) = v.cap THEN <<Err(value), v>>
    ELSE <<Ok, [v EXCEPT !.elems = Append(@, value)]>>

\* AllocVec::pop: the element and the vector afterwards; panics when empty.
vec_pop(v) ==
    IF ~(Len(v.elems) > 0) THEN <<Panic("Index out of bounds"), v>>
    ELSE <<Some(v.elems[Len(v.elems)]),
           [v EXCEPT !.elems = SubSeq(@, 1, Len(@) - 1)]>>

\* AllocVec::clear: the length becomes 0, the capacity is kept.
vec_clear(v) == [v EXCEPT !.elems = <<>>]

InitVec ==
    /\ \E cap \in 0..MaxVecCap :
          /\ entries = vec_with_capacity(cap).elems
          /\ count = vec_with_capacity(cap).cap
          /\ last = Op("with_capacity", 0, cap, None)
    /\ index = <<>>
    /\ deleted = 0
    /\ panicked = FALSE
    /\ hashOf = <<>>
    /\ ref = <<>>
    /\ other = NoMap
    /\ heap = NoHeap
    /\ mapIndex = NoIndex

ThisVec == AllocVec(entries, count)

\* The call returns ret and leaves the vector v.
VecCall(name, val, ret, v) ==
    /\ entries' = v.elems
    /\ count' = v.cap
    /\ panicked' = (ret[1] = "Panic")
    /\ last' = Op(name, 0, val, ret)
    /\ UNCHANGED <<index, deleted, hashOf, ref, other, heap, mapIndex>>

VecTryPush(value) ==
    /\ ~panicked
    /\ LET r == try_push(ThisVec, value) IN VecCall("try_push", value, r[1], r[2])

VecPop ==
    /\ ~panicked
    /\ LET r == vec_pop(ThisVec) IN VecCall("pop", 0, r[1], r[2])

VecReserve(additional) ==
    /\ ~panicked
    /\ count + additional <= MaxVecCap
    /\ VecCall("reserve", additional, None, vec_reserve(ThisVec, additional))

VecClear ==
    /\ ~panicked
    /\ VecCall("clear", 0, None, vec_clear(ThisVec))

NextVec ==
    \/ \E value \in Values : VecTryPush(value)
    \/ VecPop
    \/ \E additional \in 0..MaxVecCap : VecReserve(additional)
    \/ VecClear

SpecVec == InitVec /\ [][NextVec]_vars

(***************************************************************************)
(* Properties                                                              *)
(***************************************************************************)
SlotsOf(i) == {s \in 1..Len(index) : index[s] = Occupied(i)}
DeletedSlots == {s \in 1..Len(index) : index[s] = Deleted}
HomeSlot(k) == hashOf[k] % Len(index)

\* C1: after every sequence of insert, remove, pop, pop_front, clear, reserve,
\* shrink_to and shrink_to_fit from new() or with_capacity(n), iter() yields
\* exactly the pairs of the reference ordered list (fresh key appended,
\* existing key updated in place, removed key deleted, order of the
\* survivors kept).
C1_IterIsReference == iter = ref

C1_Witness ==
    /\ last.op = "remove" /\ last.ret # None
    /\ Len(ref) >= 2 /\ ref[1][1] > ref[2][1]
    /\ iter = ref

\* C2: insert(k, v) returns Some(old) when k was present with value old and
\* None when k was absent, and get(k) right afterwards returns Some(v).
C2_InsertThenGet ==
    [][\A k \in Keys, v \in Values :
          (last'.op = "insert" /\ last'.key = k /\ last'.val = v)
          => /\ ~panicked'
             /\ last'.ret = get(k)
             /\ get(k)' = Some(v)]_vars

C2_Witness ==
    /\ last.op = "insert" /\ last.ret # None /\ last.ret # Some(last.val)
    /\ get(last.key) = Some(last.val)

\* C3: remove(k) of a present key returns k's value; afterwards get(k) is
\* None and get(k2) is unchanged for every other key k2, also for keys whose
\* probe chain passes through the slot that became Deleted.
C3_RemoveFrame ==
    [][\A k \in Keys :
          (last'.op = "remove" /\ last'.key = k /\ get(k) # None)
          => /\ ~panicked'
             /\ last'.ret = get(k)
             /\ get(k)' = None
             /\ \A k2 \in Keys \ {k} : get(k2)' = get(k2)]_vars

C3_Witness ==
    /\ last.op = "remove" /\ last.ret # None
    /\ \E k2 \in Keys \ {last.key} :
          /\ get(k2) # None
          /\ HomeSlot(k2) = HomeSlot(last.key)
          /\ index[HomeSlot(k2) + 1] = Deleted

\* C4: the ordinals stored in Occupied slots are exactly 0..len-1, each in
\* exactly one slot: none duplicated, missing or >= len.
C4_OrdinalsBijective ==
    /\ \A s \in 1..Len(index) : IsOccupied(index[s]) => index[s][2] < len
    /\ \A i \in 0..(len - 1) : Cardinality(SlotsOf(i)) = 1

C4_Witness ==
    /\ last.op \in {"pop_front", "remove"} /\ last.ret # None
    /\ len >= 2 /\ deleted >= 1
    /\ (last.op = "remove" => \E i \in 1..len : entries[i].key > last.key)

\* The linear probe from slot `from` reaches slot `to` without meeting Empty.
ProbeReaches(from, to) ==
    \A d \in 0..(Len(index) - 1) :
        d < (to + Len(index) - from) % Len(index)
        => index[((from + d) % Len(index)) + 1] # Empty

\* C5: for every slot holding Occupied(i): i < len, the probe from
\* entries[i].hash mod capacity reaches the slot before any Empty slot, and
\* find_slot of the entry's hash and key returns (that slot, Some(i)); pop and
\* pop_front never hit their unreachable!.
C5_OccupiedReachable ==
    /\ \A s \in 1..Len(index) :
          IsOccupied(index[s]) =>
             /\ index[s][2] < len
             /\ ProbeReaches(entries[index[s][2] + 1].hash % Len(index), s - 1)
             /\ find_slot(index, entries, entries[index[s][2] + 1].hash,
                          entries[index[s][2] + 1].key)
                = <<s - 1, Some(index[s][2])>>
    /\ (last.op \in {"pop", "pop_front"} => ~panicked)

C5_Witness ==
    /\ last.op \in {"pop", "pop_front"} /\ last.ret # None
    /\ \E s \in 1..Len(index) :
          /\ IsOccupied(index[s])
          /\ entries[index[s][2] + 1].hash % Len(index) # s - 1
          /\ index[(entries[index[s][2] + 1].hash % Len(index)) + 1] = Deleted

\* C6: the deleted counter equals the number of Deleted slots.
C6_DeletedCount == deleted = Cardinality(DeletedSlots)

C6_Witness ==
    /\ deleted >= 2 /\ len >= 1
    /\ last.op \in {"remove", "pop", "pop_front"}

\* C7: the entry buffer and the index have the same allocated count,
\* len <= capacity and len + deleted <= capacity.
C7_CapacityBounds ==
    /\ count = Len(index)
    /\ len <= capacity
    /\ len + deleted <= capacity

C7_Witness ==
    /\ capacity >= 2 /\ deleted >= 1 /\ len >= 1
    /\ len + deleted = capacity
    /\ last.op = "insert"

\* C8: no two entries have equal keys, also after a key is removed and
\* inserted again while its old slot is still a tombstone.
C8_UniqueKeys ==
    \A i, j \in 1..len : entries[i].key = entries[j].key => i = j

C8_Witness ==
    /\ last.op = "insert" /\ last.ret = None
    /\ deleted >= 1 /\ len >= 2
    /\ index[HomeSlot(last.key) + 1] = Deleted
    /\ get(last.key) = Some(last.val)

IsPowerOfTwo(n) == \E e \in 0..n : 2^e = n

\* C9: with capacity C > 0, insert grows the capacity exactly when
\* len + deleted has reached floor(0.75 * C) + 1; the new capacity is the
\* least power of two >= ceil(C / 0.75) and deleted is reset to 0; otherwise
\* insert leaves the capacity unchanged.
C9_GrowthPolicy ==
    [][(last'.op = "insert" /\ capacity > 0)
       => /\ ~panicked'
          /\ IF len + deleted >= ((3 * capacity) \div 4) + 1
             THEN /\ capacity' > capacity
                  /\ IsPowerOfTwo(capacity')
                  /\ 3 * capacity' >= 4 * capacity
                  /\ 3 * (capacity' \div 2) < 4 * capacity
                  /\ deleted' = 0
             ELSE capacity' = capacity]_vars

C9_Witness ==
    /\ last.op = "insert" /\ last.ret = None
    /\ capacity = 16 /\ deleted = 0 /\ len = 1

ExpectedCapacity == <<1, 2, 4, 4, 8>>
ExpectedLoadEighths == <<8, 8, 6, 8, 5>>

\* C10: from new(), inserting five distinct keys one after another gives the
\* capacities 1, 2, 4, 4, 8 and the loads 1.0, 1.0, 0.75, 1.0, 0.625, and
\* after each insert every key inserted so far is retrievable with its value.
C10_GrowthTrajectory ==
    /\ ~panicked
    /\ len = 0 => capacity = 0
    /\ len \in 1..5 =>
          /\ capacity = ExpectedCapacity[len]
          /\ 8 * (len + deleted) = ExpectedLoadEighths[len] * capacity
          /\ \A k \in 1..len : get(k) = Some(ref[k][2])

C10_Witness ==
    /\ last.op = "insert" /\ len = 5 /\ capacity = 8
    /\ hashOf[1] = hashOf[5]

\* C11: after clear() on any reachable map, whatever its length and deleted
\* count: len = 0, the capacity is unchanged, every index slot is Empty,
\* deleted = 0 and current_load() = 0.
C11_ClearResets ==
    [][last'.op = "clear"
       => /\ ~panicked'
          /\ len' = 0
          /\ capacity' = capacity
          /\ \A s \in 1..Len(index') : index'[s] = Empty
          /\ deleted' = 0
          /\ current_load'[1] = 0]_vars

\* C12: after shrink_to_fit() on any reachable map the capacity equals len
\* (0, with both buffers released, when the map has no entries), deleted = 0,
\* no slot is Deleted, every slot is Occupied, and every remaining key is
\* retrievable with the same value at the same ordinal.
C12_ShrinkToFit ==
    [][last'.op = "shrink_to_fit"
       => /\ ~panicked'
          /\ capacity' = len /\ count' = len
          /\ deleted' = 0
          /\ \A s \in 1..Len(index') : IsOccupied(index'[s])
          /\ entries' = entries
          /\ \A i \in 0..(len - 1) :
                find_slot(index', entries', entries[i + 1].hash,
                          entries[i + 1].key)[2] = Some(i)
          /\ \A k \in Keys : get(k)' = get(k)]_vars

C12_Witness ==
    /\ last.op = "shrink_to_fit"
    /\ len >= 2 /\ capacity = len
    /\ entries[1].hash = entries[2].hash
    /\ ref[1][1] > ref[2][1]

\* C13: for every reachable map and every n with len <= n < capacity, after
\* shrink_to(n) the capacity is exactly n, deleted = 0 and all entries keep
\* their values and order; both buffers are released entirely (capacity 0)
\* only when n = 0 and len = 0.
C13_ShrinkToExact ==
    [][(last'.op = "shrink_to" /\ len <= last'.val /\ last'.val < capacity)
       => /\ ~panicked'
          /\ capacity' = last'.val
          /\ deleted' = 0
          /\ entries' = entries
          /\ (count' = 0 => last'.val = 0 /\ len = 0)]_vars

\* C14: shrink_to(n) with n < len or n >= capacity has no effect: capacity,
\* len, deleted, the entries and every index slot are unchanged.
C14_ShrinkToNoEffect ==
    [][(last'.op = "shrink_to" /\ (last'.val < len \/ last'.val >= capacity))
       => /\ ~panicked'
          /\ UNCHANGED <<entries, count, index, deleted>>]_vars

C14_Witness ==
    /\ last.op = "shrink_to"
    /\ last.val >= capacity
    /\ len >= 1 /\ deleted >= 1

\* C15: for every reachable map, from capacity 0 upwards, and every n >= 0,
\* reserve(n) completes and leaves the capacity equal to the previous
\* capacity plus n exactly, with len, the order of the entries and the result
\* of get for every key unchanged.
C15_ReserveExact ==
    [][last'.op = "reserve"
       => /\ ~panicked'
          /\ capacity' = capacity + last'.val
          /\ entries' = entries
          /\ \A k \in Keys : get(k)' = get(k)]_vars

\* C16: on every non-empty reachable map pop_front() returns the pair that
\* first() returned just before and pop() returns the pair that last()
\* returned just before; in both cases len decreases by 1, the removed
\* entry's slot becomes Deleted and deleted increases by 1, and after
\* pop_front every Occupied(j) with j > 0 has become Occupied(j-1).
C16_PopEnds ==
    [][(last'.op \in {"pop_front", "pop"} /\ len > 0)
       => /\ ~panicked'
          /\ last'.ret = IF last'.op = "pop_front" THEN first ELSE last_entry
          /\ len' = len - 1
          /\ deleted' = deleted + 1
          /\ capacity' = capacity
          /\ LET gone == IF last'.op = "pop_front" THEN 0 ELSE len - 1 IN
             \A s \in 1..Len(index) :
                index'[s] =
                   IF index[s] = Occupied(gone) THEN Deleted
                   ELSE IF last'.op = "pop_front" /\ IsOccupied(index[s])
                        THEN Occupied(index[s][2] - 1)
                   ELSE index[s]]_vars

C16_Witness ==
    /\ last.op = "pop_front" /\ last.ret # None
    /\ len >= 2 /\ deleted >= 2
    /\ first # last_entry

HasKey(k) == \E i \in 1..len : entries[i].key = k

\* C17: get, get_mut and remove of a key that is not in the map, and first,
\* last, pop and pop_front on a map with no entries, return None and leave
\* len, deleted, capacity, the entries and every index slot unchanged.
C17_AbsentReturnsNone ==
    [][(\/ last'.op \in {"get", "get_mut", "remove"} /\ ~HasKey(last'.key)
        \/ last'.op \in {"first", "last", "pop", "pop_front"} /\ len = 0)
       => /\ ~panicked'
          /\ last'.ret = None
          /\ UNCHANGED <<entries, count, index, deleted>>]_vars

C17_Witness ==
    /\ last.op = "remove" /\ last.ret = None
    /\ len >= 1 /\ deleted >= 1
    /\ ~HasKey(last.key)
    /\ index[HomeSlot(last.key) + 1] # Empty

\* C18: for every reachable map, map[i] with i < len returns the value of
\* the i-th surviving entry in insertion order (the i-th element of iter()),
\* and map[i] with i >= len panics with 'Index out of bounds' in every build
\* without reading any entry.
C18_IndexAccess ==
    [][last'.op = "index"
       => IF last'.val < len
          THEN /\ ~panicked'
               /\ last'.ret = Some(iter[last'.val + 1][2])
          ELSE /\ panicked'
               /\ last'.ret = Panic("Index out of bounds.")]_vars

C18_Witness ==
    /\ last.op = "index" /\ ~panicked
    /\ last.val = 1 /\ deleted >= 1
    /\ last.ret = Some(ref[2][2])
    /\ ref[1][2] # ref[2][2]

Pairs(ents) == [i \in 1..Len(ents) |-> <<ents[i].key, ents[i].value>>]

\* C19: for every reachable map m, m.clone_compact() has the same key-value
\* pairs in the same order as m, capacity equal to m.len(), deleted = 0 and
\* no Deleted slot, and satisfies all index invariants, so every key of m is
\* retrievable from it.
C19_CloneCompact ==
    last.op = "clone_compact" =>
       /\ ~panicked
       /\ other # NoMap
       /\ Pairs(other.entries) = iter
       /\ Len(other.index) = len /\ other.count = len
       /\ other.deleted = 0
       /\ \A s \in 1..Len(other.index) : other.index[s] # Deleted
       /\ \A i \in 0..(len - 1) :
             /\ Cardinality({s \in 1..Len(other.index) :
                                other.index[s] = Occupied(i)}) = 1
             /\ find_slot(other.index, other.entries, other.entries[i + 1].hash,
                          other.entries[i + 1].key)[2] = Some(i)
       /\ \A k \in Keys : get_in(other, hashOf[k], k) = get(k)

C19_Witness ==
    /\ last.op = "clone_compact" /\ other # NoMap
    /\ deleted >= 1 /\ len >= 2 /\ capacity > len
    /\ entries[1].hash = entries[2].hash
    /\ Len(other.index) = len

C21_RemovalKeepsCapacity ==
    [][last'.op \in {"remove", "pop", "pop_front"}
       => /\ ~panicked'
          /\ capacity' = capacity
          /\ count' = count]_vars

C21_Witness ==
    /\ last.op = "pop" /\ last.ret # None
    /\ len = 0 /\ deleted >= 2 /\ capacity >= 2

\* C22: for every reachable map, iter(), iter_keys(), iter_values() and the
\* consuming into_iter() all emit the entries in the same order, ordinal 0
\* to len-1, each entry exactly once, and into_iter() returns None after
\* the len-th item.
C22_IteratorsInOrder ==
    /\ last.op = "iter" =>
          /\ Len(last.ret[2]) = len
          /\ \A i \in 1..len :
                last.ret[2][i] = <<entries[i].key, entries[i].value>>
    /\ last.op = "iter_keys" =>
          /\ Len(last.ret[2]) = len
          /\ \A i \in 1..len : last.ret[2][i] = entries[i].key
    /\ last.op = "iter_values" =>
          /\ Len(last.ret[2]) = len
          /\ \A i \in 1..len : last.ret[2][i] = entries[i].value
    /\ last.op = "into_iter" =>
          /\ Len(last.ret[2][1]) = len
          /\ \A i \in 1..len :
                last.ret[2][1][i] = <<entries[i].key, entries[i].value>>
          /\ last.ret[2][2] = None
          /\ last.ret[2][1] = ref

C22_Witness ==
    /\ last.op = "into_iter"
    /\ Len(last.ret[2][1]) = 3 /\ deleted >= 1
    /\ last.ret[2][1][1][1] > last.ret[2][1][2][1]

OccupiedSlots == {s \in 1..Len(index) : IsOccupied(index[s])}

\* C23: in every insert of a key that is not present, the slot returned by
\* find_slot after ensure_capacity is Empty, so the debug assertion 'slot is
\* expected to an empty slot' never fails and no Occupied or Deleted slot is
\* ever overwritten by the new Occupied(len) entry.
C23_InsertIntoEmpty ==
    [][(last'.op = "insert" /\ ~HasKey(last'.key))
       => /\ ~panicked'
          /\ LET g == ensure_capacity(Map)
                 r == find_slot(g.index, g.entries, hashOf[last'.key],
                                last'.key)
             IN /\ r[2] = None
                /\ g.index[r[1] + 1] = Empty
                /\ index' = [g.index EXCEPT ![r[1] + 1] = Occupied(len)]
          /\ len' = len + 1
          /\ Cardinality(OccupiedSlots') = len + 1
          /\ (capacity' = capacity =>
                \A s \in 1..Len(index) :
                   index[s] # Empty => index'[s] = index[s])]_vars

C23_Witness ==
    /\ last.op = "insert" /\ last.ret = None
    /\ deleted >= 1 /\ len >= 2
    /\ len + deleted = capacity
    /\ index[HomeSlot(last.key) + 1] # Occupied(len - 1)

NoEmptySlot == capacity > 0 /\ \A s \in 1..Len(index) : index[s] # Empty

\* C24: find_slot examines at most capacity slots and terminates for every
\* reachable index state, including an index with no Empty slot (all
\* Occupied after shrink_to_fit, or a mix of Occupied and Deleted); in that
\* state get, get_mut and remove of an absent key return None.
C24_FindSlotTerminates ==
    /\ [](capacity > 0 =>
            \A k \in Keys :
               /\ find_slot(index, entries, hashOf[k], k)[2] # Fault
               /\ probe_loads(index, entries, hashOf[k] % Len(index), 0, k)
                  <= capacity)
    /\ [][(/\ last'.op \in {"get", "get_mut", "remove"}
           /\ ~HasKey(last'.key)
           /\ NoEmptySlot)
          => /\ ~panicked'
             /\ last'.ret = None]_vars

C24_Witness ==
    /\ last.op = "get" /\ last.ret = None
    /\ NoEmptySlot
    /\ len >= 1 /\ deleted >= 1
    /\ probe_loads(index, entries, hashOf[last.key] % Len(index), 0, last.key)
       = capacity

\* C25: no public operation evaluates hash % capacity with capacity = 0:
\* get, get_mut, remove, pop and pop_front return before probing when the
\* map has no entries, insert allocates first, and no rebuild is run with
\* capacity 0 on a non-empty entry vector.  The only panics left are the
\* bounds assertion of map[i] and the allocation assertion of reserve on an
\* unallocated map, which has no entry to place.
C25_NoModuloZero ==
    /\ [](len > 0 => capacity > 0)
    /\ [][/\ last'.op \in {"get", "get_mut", "remove", "pop", "pop_front",
                            "insert", "first", "last", "clear", "shrink_to",
                            "shrink_to_fit"}
             => ~panicked'
          /\ (last'.op \in {"get", "get_mut", "remove", "pop", "pop_front"}
               /\ capacity = 0)
             => last'.ret = None /\ UNCHANGED <<entries, count, index, deleted>>
          /\ (last'.op = "insert" /\ capacity = 0) => capacity' = 1
          /\ (last'.op = "reserve" /\ panicked') => capacity = 0 /\ len = 0
          /\ (last'.op = "index" /\ panicked') => last'.val >= len
          /\ len' > 0 => capacity' > 0]_vars

C25_Witness ==
    /\ last.op = "get" /\ last.ret = None
    /\ capacity = 0 /\ ~panicked

\* The step runs a rebuild of the index of this map.
Rebuilds ==
    \/ last'.op = "insert" /\ capacity > 0 /\ capacity' # capacity
    \/ last'.op = "reserve" /\ last'.val > 0 /\ (capacity > 0 \/ ~panicked')
    \/ last'.op = "shrink_to" /\ len > 0
          /\ last'.val >= len /\ last'.val < capacity
    \/ last'.op = "shrink_to_fit" /\ len > 0 /\ capacity > len

\* The index idx is what build_index makes of a fresh index of its size for
\* the entries ents: no Deleted slot, entry i in exactly one Occupied(i).
Rebuilt(idx, ents) ==
    /\ Len(idx) >= Len(ents)
    /\ build_index(new_allocate_default(Len(idx)), ents) = idx
    /\ \A s \in 1..Len(idx) : idx[s] # Deleted
    /\ \A i \in 0..(Len(ents) - 1) :
          Cardinality({s \in 1..Len(idx) : idx[s] = Occupied(i)}) = 1
    /\ Cardinality({s \in 1..Len(idx) : IsOccupied(idx[s])}) = Len(ents)

\* C26: every rebuild (from grow, reserve, shrink_to, shrink_to_fit and
\* clone_compact) runs on a fresh all-Empty index whose size is at least
\* len, so build_index never meets a Deleted slot (its unreachable! is never
\* hit), its unbounded inner loop terminates for every entry, and afterwards
\* every entry i is indexed by exactly one Occupied(i).
C26_RebuildOnFreshIndex ==
    [][/\ Rebuilds => ~panicked' /\ deleted' = 0 /\ Rebuilt(index', entries')
       /\ last'.op = "clone_compact" =>
             /\ ~panicked'
             /\ other'.deleted = 0
             /\ Rebuilt(other'.index, other'.entries)]_vars

C26_Witness ==
    /\ last.op = "reserve" /\ last.val > 0
    /\ len >= 2 /\ capacity = len + last.val
    /\ entries[1].hash % capacity = entries[2].hash % capacity
    /\ Rebuilt(index, entries)

\* C27: an insert that does not trigger growth never turns a Deleted slot
\* into Occupied and never changes deleted: a fresh key is always written
\* into an Empty slot even when its probe passed over tombstones, and an
\* update of an existing key changes no slot.
C27_TombstonesNotReused ==
    [][(last'.op = "insert" /\ capacity' = capacity)
       => /\ ~panicked'
          /\ deleted' = deleted
          /\ \A s \in 1..Len(index) : index[s] = Deleted => index'[s] = Deleted
          /\ HasKey(last'.key) => index' = index
          /\ ~HasKey(last'.key) =>
                \E s \in 1..Len(index) :
                   /\ index[s] = Empty
                   /\ index' = [index EXCEPT ![s] = Occupied(len)]]_vars

C27_Witness ==
    /\ last.op = "insert" /\ last.ret = None
    /\ deleted >= 1
    /\ index[HomeSlot(last.key) + 1] = Deleted
    /\ \E s \in 1..Len(index) : index[s] = Occupied(len - 1)

\* Every tombstone of this state is still a tombstone in the next one.
TombstonesKept ==
    /\ deleted' >= deleted
    /\ \A s \in 1..Len(index) :
          index[s] = Deleted => s <= Len(index') /\ index'[s] = Deleted

\* C28 as stated: shrink_to and shrink_to_fit are the only operations that
\* reclaim tombstones: no other operation (insert, remove, pop, pop_front,
\* reserve, clear, get) ever decreases the deleted count or turns a Deleted
\* slot back into Empty.
C28_OnlyShrinkReclaims ==
    [][last'.op \notin {"shrink_to", "shrink_to_fit"} => TombstonesKept]_vars

\* C28, amended: the operations that reclaim tombstones are shrink_to,
\* shrink_to_fit, an insert that grows the capacity, reserve and clear; no
\* other operation (an insert that leaves the capacity unchanged, remove,
\* pop, pop_front, get, get_mut) ever decreases the deleted count or turns
\* a Deleted slot back into Empty.
C28_OnlyRebuildOrClearReclaims ==
    [][(\/ last'.op \in {"remove", "pop", "pop_front", "get", "get_mut"}
        \/ last'.op = "insert" /\ capacity' = capacity)
       => TombstonesKept]_vars

C28_Witness ==
    /\ last.op = "insert" /\ last.ret = None
    /\ deleted >= 2 /\ len >= 1
    /\ len + deleted < capacity

\* Every entry of ents stores the hash of its key.
HashesStored(ents) == \A i \in 1..Len(ents) : ents[i].hash = hashOf[ents[i].key]

\* Every entry of ents is placed in idx on the probe chain of its stored hash.
PlacedByStoredHash(idx, ents) ==
    \A i \in 1..Len(ents) :
       find_slot(idx, ents, ents[i].hash, ents[i].key)[2] = Some(i - 1)

\* C29: the hash stored in an entry is the hash of its key computed at
\* insertion and is never changed afterwards: value updates, index
\* decrements, grow, reserve, shrink and clone leave every surviving entry's
\* hash field unchanged, and rebuild places entries using the stored hash
\* only.
C29_HashImmutable ==
    /\ HashesStored(entries)
    /\ PlacedByStoredHash(index, entries)
    /\ other # NoMap =>
          /\ HashesStored(other.entries)
          /\ PlacedByStoredHash(other.index, other.entries)

C29_Witness ==
    /\ last.op = "clone_compact" /\ other # NoMap
    /\ len >= 2 /\ deleted >= 1
    /\ entries[1].hash # entries[2].hash
    /\ capacity > Len(other.index)
    /\ other.entries[1].hash = entries[1].hash

\* C30: insert(k, v) for a key k already in the map leaves len, the sequence
\* of keys, the ordinal of k and the value of every other key unchanged;
\* only k's value changes (the capacity may grow beforehand, as when the
\* same key is inserted twice into a new map and capacity becomes 2 with
\* len 1).
C30_UpdateFrame ==
    [][(last'.op = "insert" /\ HasKey(last'.key))
       => /\ ~panicked'
          /\ len' = len
          /\ \A i \in 1..len :
                /\ entries'[i].key = entries[i].key
                /\ entries'[i].value = IF entries[i].key = last'.key
                                       THEN last'.val
                                       ELSE entries[i].value
          /\ find_slot(index', entries', hashOf[last'.key], last'.key)[2]
             = find_slot(index, entries, hashOf[last'.key], last'.key)[2]
          /\ \A k \in Keys \ {last'.key} : get(k)' = get(k)
          /\ capacity' >= capacity
          /\ (capacity = 1 /\ len = 1) => capacity' = 2]_vars

C30_Witness ==
    /\ last.op = "insert" /\ last.ret # None /\ last.ret # Some(last.val)
    /\ capacity = 2 /\ len = 1 /\ deleted = 0
    /\ entries[1].value = last.val

\* The removals of the scenario are done.
ScenarioDone == last.op = "remove" /\ last.key = ScenarioCap - 1

EmptySlots == {s \in 1..Len(index) : index[s] = Empty}

\* C31 as stated: starting from with_capacity(100), after inserting the keys
\* 0..100 and then removing the keys 75..100, the index has 25 Deleted
\* slots, 75 Occupied slots and 0 Empty slots.
C31_NoEmptyAfterScenario ==
    ScenarioDone =>
       /\ Cardinality(DeletedSlots) = ScenarioCap - ScenarioKept
       /\ Cardinality(OccupiedSlots) = ScenarioKept
       /\ Cardinality(EmptySlots) = 0

\* C31, amended: starting from with_capacity(100), after inserting the keys
\* 0..100 and then removing the keys 75..100, the capacity is
\* next_power_of_two(ceil(100 / 0.75)) = 256 and the index has 25 Deleted
\* slots, 75 Occupied slots and capacity - 100 = 156 Empty slots.
C31_ScenarioTally ==
    ScenarioDone =>
       /\ ~panicked
       /\ capacity = next_power_of_two(growth_factor(ScenarioCap))
       /\ deleted = ScenarioCap - ScenarioKept
       /\ Cardinality(DeletedSlots) = ScenarioCap - ScenarioKept
       /\ Cardinality(OccupiedSlots) = ScenarioKept
       /\ \A i \in 0..(ScenarioKept - 1) : Cardinality(SlotsOf(i)) = 1
       /\ Cardinality(EmptySlots) = capacity - ScenarioCap

C31_Witness ==
    /\ ScenarioDone
    /\ len = ScenarioKept
    /\ capacity > ScenarioCap
    /\ Cardinality(EmptySlots) > 0
    /\ hashOf[1] = 2

\* C32: clear() runs the destructor of every initialized element in [0, len)
\* exactly once and then sets the length to 0.
C32_ClearDropsAll ==
    [][last'.op = "clear"
       => /\ len' = 0
          /\ \A k \in Keys :
                heap'.drops[k] = IF k \in KeysOf(entries)
                                 THEN heap.drops[k] + 1
                                 ELSE heap.drops[k]]_vars

\* C33: when the iterator of a consumed map is dropped, exhausted or not, no
\* entry already yielded by next() has its destructor run by the buffer,
\* and every entry not yet yielded has it run exactly once.
C33_IterDropsOnce ==
    [][last'.op = "drop_iter"
       => \A i \in 1..Len(entries) :
             heap'.drops[entries[i].key] = IF i <= heap.at THEN 0 ELSE 1]_vars

\* C34: dropping the map drops its entry buffer: the destructor of each of
\* the len initialized elements runs exactly once and the allocation is
\* released; the entries moved out earlier by remove, pop and pop_front
\* (take_last, take_shift_left) are not dropped by the buffer, and a buffer
\* that is not allocated is dropped without any deallocation.
C34_DropBuffer ==
    [][last'.op = "drop"
       => /\ \A k \in KeysOf(entries) : heap.drops[k] = 0 /\ heap'.drops[k] = 1
          /\ \A k \in Keys \ KeysOf(entries) : heap'.drops[k] = heap.drops[k]
          /\ \A k \in heap.taken : heap'.drops[k] = 0
          /\ heap'.deallocs = IF count = 0 THEN 0 ELSE 1
          /\ len' = 0 /\ count' = 0]_vars

C34_Witness ==
    /\ last.op = "drop" /\ last.key >= 2 /\ last.val >= 2
    /\ heap.taken # {}
    /\ heap.deallocs = 1
    /\ \E k \in Keys : heap.drops[k] = 1
    /\ \E k \in heap.taken : heap.drops[k] = 0

\* The buffers of the map m.
EntriesBuffer(m) == Buffer(m.count, m.entries)
IndexBuffer(m) == Buffer(Len(m.index), m.index)

\* The call of allocate made by new_allocate(c) and new_allocate_default(c).
new_allocate_calls(c) == IF c = 0 THEN {} ELSE {<<NewBuffer, c>>}

\* The call of allocate made by clone_in(compact) on the buffer b.
clone_in_calls(b, compact) ==
    IF b.count = 0 \/ (compact /\ Len(b.elems) = 0) THEN {}
    ELSE {<<NewBuffer, IF compact THEN Len(b.elems) ELSE b.count>>}

\* The calls of BufferPointer::allocate that the operations of OmniMap make
\* on the map m, each as the buffer it is called on and the count asked
\* for: ensure_capacity on its two buffers when the index is unallocated,
\* with_capacity(c) and reset_index(c) for any c, clone and clone_compact.
allocate_calls(m) ==
    (IF Len(m.index) = 0
     THEN {<<IndexBuffer(m), 1>>, <<EntriesBuffer(m), 1>>} ELSE {})
    \cup UNION {new_allocate_calls(c) : c \in 0..MaxCap}
    \cup clone_in_calls(EntriesBuffer(m), FALSE)
    \cup clone_in_calls(IndexBuffer(m), FALSE)
    \cup clone_in_calls(EntriesBuffer(m), TRUE)
    \cup new_allocate_calls(Len(m.entries))

\* C35: allocate(n) on an unallocated buffer with n > 0 leaves count = n and
\* len = 0 with the pointer set; a debug build panics with 'Pointer must be
\* null.' on an allocated buffer and with 'Allocation count must be greater
\* than 0' for n = 0; every call that OmniMap makes (with_capacity,
\* ensure_capacity, clone, clone_compact, reset_index) is on an unallocated
\* buffer with n > 0 in every reachable state, and the insert that allocates
\* leaves both buffers with count 1.
C35_AllocatePreconditions ==
    /\ [](\A debug \in BOOLEAN :
            /\ \A c \in allocate_calls(Map) :
                  /\ c[1].count = 0 /\ c[1].elems = <<>> /\ c[2] > 0
                  /\ allocate(c[1], c[2], debug) = Buffer(c[2], <<>>)
            /\ \A n \in 0..MaxCap :
                  /\ new_allocate(n, debug) = Buffer(n, <<>>)
                  /\ capacity > 0 =>
                        allocate(IndexBuffer(Map), n, TRUE).panic
                        = "Pointer must be null."
                  /\ count > 0 =>
                        allocate(EntriesBuffer(Map), n, TRUE).panic
                        = "Pointer must be null."
            /\ allocate(NewBuffer, 0, TRUE).panic
               = "Allocation count must be greater than 0")
    /\ [][(last'.op = "insert" /\ capacity = 0)
          => /\ ~panicked'
             /\ \A debug \in BOOLEAN :
                   /\ capacity' = allocate(IndexBuffer(Map), 1, debug).count
                   /\ count' = allocate(EntriesBuffer(Map), 1, debug).count]_vars

C35_Witness ==
    /\ last.op = "insert" /\ last.ret = None
    /\ capacity = 1 /\ count = 1 /\ len = 1
    /\ deleted = 0

\* A debug build panics in reallocate with the message msg.
ReallocatePanicsWith(msg) ==
    /\ last'.ret = Panic(msg)
    /\ panicked'
    /\ UNCHANGED <<entries, count>>

\* C36 as stated: reallocate(new_count) on an allocated buffer with
\* new_count >= len sets count = new_count and leaves len and the values at
\* [0, len) unchanged; a debug build panics when the buffer is unallocated
\* ('Pointer must not be null.') or when new_count < len ('New count must be
\* greater than or equal to the current length').
C36_ReallocateAnyCount ==
    /\ [][(last'.op = "reallocate" /\ count > 0 /\ last'.val >= len)
          => /\ last'.ret = None
             /\ count' = last'.val
             /\ entries' = entries]_vars
    /\ [][(last'.op = "reallocate" /\ last'.key = 1)
          => /\ count = 0 =>
                   ReallocatePanicsWith("Pointer must not be null.")
             /\ (count > 0 /\ last'.val < len) =>
                   ReallocatePanicsWith("New count must be greater than or equal to the current length.")]_vars

\* C36, amended: the new count must also be above 0.  reallocate(new_count)
\* on an allocated buffer with new_count > 0 and new_count >= len sets
\* count = new_count and leaves len and the values at [0, len) unchanged; a
\* debug build panics when the buffer is unallocated ('Pointer must not be
\* null.'), when new_count = 0 ('Allocation count must be greater than 0')
\* or when 0 < new_count < len ('New count must be greater than or equal to
\* the current length').
C36_Reallocate ==
    /\ [][(last'.op = "reallocate" /\ count > 0 /\ last'.val > 0
           /\ last'.val >= len)
          => /\ last'.ret = None
             /\ count' = last'.val
             /\ entries' = entries]_vars
    /\ [][(last'.op = "reallocate" /\ last'.key = 1)
          => /\ count = 0 =>
                   ReallocatePanicsWith("Pointer must not be null.")
             /\ (count > 0 /\ last'.val = 0) =>
                   ReallocatePanicsWith("Allocation count must be greater than 0")
             /\ (count > 0 /\ last'.val > 0 /\ last'.val < len) =>
                   ReallocatePanicsWith("New count must be greater than or equal to the current length.")]_vars

C36_Witness ==
    /\ last.op = "reallocate" /\ last.ret = None
    /\ len >= 2 /\ count = len /\ last.val = count
    /\ entries[1] # entries[2]


\* The index is allocated exactly when one allocation was not yet freed.
IndexAccounted ==
    mapIndex.allocs = mapIndex.frees + (IF mapIndex.pointer.null THEN 0 ELSE 1)

\* C37: a guard dropped while active deallocates an allocated index once
\* (the pointer is null afterwards) and does nothing to an unallocated one;
\* a deactivated guard never deallocates, the index stays allocated until
\* deallocate is called; no allocation is leaked or freed twice.
C37_IndexGuard ==
    /\ [](mapIndex.frees <= mapIndex.allocs /\ IndexAccounted)
    /\ [][/\ last'.op = "guard_drop" /\ mapIndex.guard.state = "active"
             => IF mapIndex.pointer.null
                THEN /\ ~panicked'
                     /\ mapIndex'.pointer = mapIndex.pointer
                     /\ mapIndex'.frees = mapIndex.frees
                ELSE mapIndex.guard.cap = mapIndex.cap
                     => /\ ~panicked'
                        /\ mapIndex'.pointer.null
                        /\ mapIndex'.frees = mapIndex.frees + 1
          /\ mapIndex.guard.state = "deactivated"
             => /\ mapIndex'.guard = mapIndex.guard
                /\ (~mapIndex.pointer.null /\ mapIndex'.pointer.null)
                   => last'.op = "deallocate"
                /\ mapIndex'.frees # mapIndex.frees => last'.op = "deallocate"
          /\ mapIndex'.frees # mapIndex.frees
             => last'.op \in {"deallocate", "guard_drop"}]_vars

\* A second allocation was freed by its guard, after a first one was freed.
C37_Witness ==
    /\ last.op = "guard_drop"
    /\ mapIndex.guard.state = "dropped"
    /\ mapIndex.pointer.null
    /\ mapIndex.allocs = 2 /\ mapIndex.frees = 2


\* The capacity rounded up to a multiple of the alignment of usize.
TagAreaSize(cap) == ((cap + T_ALIGN - 1) \div T_ALIGN) * T_ALIGN

\* The layout of the capacity overflows usize or reaches the largest size.
LayoutTooLarge(cap) ==
    \/ cap * T_SIZE > USIZE_MAX
    \/ cap + T_ALIGN - 1 > USIZE_MAX
    \/ cap * T_SIZE + TagAreaSize(cap) > USIZE_MAX
    \/ cap * T_SIZE + TagAreaSize(cap) >= T_MAX_ALLOC_SIZE

\* Capacities on both sides of the largest one that has a layout.
BoundaryCaps ==
    LET c == T_MAX_ALLOC_SIZE \div (T_SIZE + 1)
    IN ((c - 3)..(c + 3)) \cup LargeCaps \cup (0..MaxIndexCap)

\* C38: allocate_uninit(cap, OnError::ReturnErr) with a capacity whose layout
\* overflows or reaches the platform maximum returns Err and leaves the
\* pointer null; on success the pointer is non-null and at the start of the
\* tag area, the cap entry indices below it and the cap tags from it on.
C38_AllocateUninit ==
    /\ [](\A cap \in BoundaryCaps :
             (index_layout(cap) = None) <=> LayoutTooLarge(cap))
    /\ [][last'.op = "allocate_uninit" /\ mapIndex.pointer.null
          => /\ LayoutTooLarge(last'.val) => last'.ret[1] = "Err"
             /\ last'.ret[1] = "Err"
                => mapIndex'.pointer.null /\ mapIndex'.allocs = mapIndex.allocs
             /\ last'.ret = Ok
                => /\ ~mapIndex'.pointer.null
                   /\ mapIndex'.pointer.at = last'.val * T_SIZE
                   /\ Len(mapIndex'.pointer.region) >=
                         mapIndex'.pointer.at + last'.val
             /\ last'.ret = Ok \/ last'.ret[1] = "Err"]_vars

\* An allocation failed on the capacity isize::MAX after one that succeeded.
C38_Witness ==
    /\ last.op = "allocate_uninit"
    /\ last.val = ISIZE_MAX
    /\ last.ret = Err("Overflow")
    /\ mapIndex.pointer.null
    /\ mapIndex.allocs = 1


\* The byte of the tag at the offset, written or not.
TagByte(p, offset) == p.region[p.at + offset + 1]

\* C39: in an index of capacity N, for offsets i, j < N, read_entry_index(i)
\* after store_entry_index(i, v) is v and read_tag(i) after store_tag(i, t)
\* is t; neither store changes a tag or the entry index of another offset;
\* set_tags_empty(N) makes every tag Empty.
C39_StoreRead ==
    [][/\ last'.op = "store_entry_index"
          => /\ read_entry_index(mapIndex'.pointer, last'.key) = Some(last'.val)
             /\ \A j \in 0..(mapIndex.cap - 1) :
                   /\ TagByte(mapIndex'.pointer, j) = TagByte(mapIndex.pointer, j)
                   /\ j # last'.key
                      => read_entry_index(mapIndex'.pointer, j) =
                            read_entry_index(mapIndex.pointer, j)
       /\ last'.op = "store_tag"
          => /\ read_tag(mapIndex'.pointer, last'.key) = Some(last'.val)
             /\ \A j \in 0..(mapIndex.cap - 1) :
                   /\ read_entry_index(mapIndex'.pointer, j) =
                         read_entry_index(mapIndex.pointer, j)
                   /\ j # last'.key
                      => TagByte(mapIndex'.pointer, j) =
                            TagByte(mapIndex.pointer, j)
       /\ last'.op = "set_tags_empty"
          => \A j \in 0..(mapIndex.cap - 1) :
                read_tag(mapIndex'.pointer, j) = Some(TagEmpty)
       /\ last'.op \in {"store_entry_index", "store_tag", "set_tags_empty"}
          => /\ mapIndex'.pointer.at = mapIndex.pointer.at
             /\ Len(mapIndex'.pointer.region) = Len(mapIndex.pointer.region)]_vars

\* Both offsets of an index of capacity 2 hold a tag and an entry index, the
\* last one stored being the largest usize next to tags that are not Empty.
C39_Witness ==
    /\ last.op = "store_entry_index" /\ last.key = 0 /\ last.val = USIZE_MAX
    /\ mapIndex.cap = 2
    /\ read_entry_index(mapIndex.pointer, 0) = Some(USIZE_MAX)
    /\ read_entry_index(mapIndex.pointer, 1) = Some(256)
    /\ read_tag(mapIndex.pointer, 0) = Some(TagOccupied)
    /\ read_tag(mapIndex.pointer, 1) = Some(TagDeleted)


\* C40: try_push(v) on a vector with len = cap returns Err(v) and leaves the
\* length, the capacity and the elements unchanged; with len < cap it returns
\* Ok(()), stores v at position len and increases the length by 1 without
\* changing the capacity.
C40_TryPush ==
    [][last'.op = "try_push"
       => IF Len(entries) = count
          THEN /\ last'.ret = Err(last'.val)
               /\ entries' = entries
               /\ count' = count
          ELSE /\ last'.ret = Ok
               /\ Len(entries') = Len(entries) + 1
               /\ entries'[Len(entries) + 1] = last'.val
               /\ \A i \in 1..Len(entries) : entries'[i] = entries[i]
               /\ count' = count]_vars

\* A full vector of two elements refused a third one.
C40_Witness ==
    /\ last.op = "try_push"
    /\ last.ret = Err(last.val)
    /\ Len(entries) = 2 /\ count = 2
    /\ entries[1] # entries[2]

=============================================================================
